---- MODULE Spec2Model ----
(***************************************************************************)
(* Model of the batch services of sky-city-pdf-generator:                  *)
(*   services/export_statement.py      (PDF export run)                    *)
(*   services/send_no_play_emails.py   (no-play email run)                 *)
(* Strings are sequences of one-character strings, byte strings are        *)
(* sequences of integers 0..255.                                           *)
(***************************************************************************)
EXTENDS Integers, Sequences, FiniteSets, TLC

VARIABLES
  \* ---- identifier codec (decrypt_account / decrypt_json) ----
  envKey,      \* os.getenv('ENCRYPTION_KEY'): [some, v]
  cInput,      \* the string handed to the codec
  cOrigin,     \* how cInput came about: "given", "encrypted", "tampered"
  cPlain,      \* the plaintext that was encrypted into cInput (if any)
  cEncKey,     \* the key bytes the envelope was encrypted under (if any)
  cRes,        \* result of the last codec call
  \* ---- batch run (export_statements_from_batch / send_emails_from_batch) ----
  variant,     \* "export" or "email": which script runs
  pc,          \* position of the run in the function body
  token,       \* `token or API_TOKEN`: "" when neither is set
  start_from_index, \* [some, v]: the --start-from-index argument
  skip_existing,    \* the --skip-existing flag
  filter_no_play_status, \* [some, v]: the --filter-status argument
  folder,      \* the quarter folder under uploads_dir: [exists, files], and the
               \* statement files of the other quarter folders: elsewhere
  store,       \* the rows of the table the batch is read from
  service,     \* the answers the API may give to a call in this run
  stdin_line,  \* the line the operator types at the "Proceed ...? (Y/N)" prompt
  periods,     \* the period values the batch row may carry in this run
  prev,        \* what an earlier run over the same batch left behind, if there was one
  batch,       \* accounts as fetched from the store (whole batch)
  accounts,    \* the local `accounts` list (after filter and slicing)
  total_accounts,
  existing_pdfs_set,
  statement_period, \* [some, v]: the period read from the batch row (email: the
               \* statement_period text; export: whether start_date and end_date are set)
  index,       \* number of records of `accounts` the loop has taken
  inflight,    \* the external call awaiting its response: [some, id, account, email]
  calls,       \* external calls issued so far, in order
  log,         \* per-record progress lines printed so far, in order
  success_count,
  skipped_count,
  error_count,
  errors,
  exit_code,   \* "running", "return" (normal return), "exit1" (sys.exit(1)), "raised"
  exit_reason, \* which message the run ended with
  connection,  \* "none", "open", "closed"
  \* ---- artifact locator called on its own (get_expected_pdf_path / pdf_exists) ----
  uploads,     \* the uploads directory: [exists, entries]
  lCall,       \* the arguments of the call: [account, quarter, year, check_all_quarters]
  lOther,      \* the arguments of a second call to get_expected_pdf_path
  lRes,        \* result of the last locator call
  \* ---- functions called on their own ----
  dResp,       \* what requests.post does for the call: a response or an exception
  dRes,        \* result of the last call of generate_pdf_for_member / send_no_play_email
  \* ---- eligibility update (update_is_email_from_csv) ----
  upd,         \* the arguments, the table and the locals of the update run
  \* ---- resume by account floor, applied on its own ----
  cur          \* [keys, floor, done, out]: the account keys of the records in batch
               \* order, the floor, and the keys of the records that are kept

codecVars == <<envKey, cInput, cOrigin, cPlain, cEncKey, cRes>>
runVars == <<variant, pc, token, start_from_index, skip_existing,
             filter_no_play_status, folder, store, service, stdin_line, periods, prev, upd, batch, accounts,
             total_accounts, existing_pdfs_set, statement_period, index, inflight, calls, log, success_count,
             skipped_count, error_count, errors, exit_code, exit_reason,
             connection>>
locVars == <<uploads, lCall, lOther, lRes>>
fnVars == <<dResp, dRes, cur>>
vars == <<codecVars, runVars, locVars, fnVars>>

----------------------------------------------------------------------------
(* Strings and bytes *)

AsciiPrintable ==
  <<" ","!","\"","#","$","%","&","'","(",")","*","+",",","-",".","/",
    "0","1","2","3","4","5","6","7","8","9",":",";","<","=",">","?","@",
    "A","B","C","D","E","F","G","H","I","J","K","L","M","N","O","P","Q","R",
    "S","T","U","V","W","X","Y","Z","[","BACKSLASH","]","^","_","BACKTICK",
    "a","b","c","d","e","f","g","h","i","j","k","l","m","n","o","p","q","r",
    "s","t","u","v","w","x","y","z","{","|","}","~">>

\* ord(c) for the printable ASCII characters (code 32 is a space); the
\* backslash is written BACKSLASH, the backtick BACKTICK
CharCode(c) == 31 + (CHOOSE i \in 1..Len(AsciiPrintable) : AsciiPrintable[i] = c)

\* chr(b) for a byte below 128; control characters are kept as one opaque character
CodeChar(b) == IF b >= 32 /\ b <= 126 THEN AsciiPrintable[b - 31] ELSE "CTRL"

Whitespace == {" ", "\t", "\n", "\r"}

HexDigits == <<"0","1","2","3","4","5","6","7","8","9","a","b","c","d","e","f">>
HexUpper == <<"0","1","2","3","4","5","6","7","8","9","A","B","C","D","E","F">>

IsHex(c) == \E i \in 1..16 : HexDigits[i] = c \/ HexUpper[i] = c

HexVal(c) == (CHOOSE i \in 1..16 : HexDigits[i] = c \/ HexUpper[i] = c) - 1

RECURSIVE Sum(_)
Sum(s) ==
  IF s = <<>> THEN 0
  ELSE IF Len(s) = 1 THEN s[1]
  ELSE LET h == Len(s) \div 2
       IN Sum(SubSeq(s, 1, h)) + Sum(SubSeq(s, h + 1, Len(s)))

\* c * n for a one-character string c
Repeat(c, n) == [i \in 1..n |-> c]

StartsWith(s, p) == Len(s) >= Len(p) /\ SubSeq(s, 1, Len(p)) = p

EndsWith(s, p) == Len(s) >= Len(p) /\ SubSeq(s, Len(s) - Len(p) + 1, Len(s)) = p

\* str.split(sep) for a one-character separator
Split(s, sep) ==
  LET Cut(at) ==
        [k \in 1..(Len(at) + 1) |->
           SubSeq(s, IF k = 1 THEN 1 ELSE at[k - 1] + 1,
                     IF k = Len(at) + 1 THEN Len(s) ELSE at[k] - 1)]
  IN Cut(SelectSeq([i \in 1..Len(s) |-> i], LAMBDA i : s[i] = sep))

\* str.strip()
Strip(s) ==
  LET keep == {i \in 1..Len(s) : s[i] \notin Whitespace}
  IN IF keep = {} THEN <<>>
     ELSE SubSeq(s, CHOOSE i \in keep : \A j \in keep : i <= j,
                    CHOOSE i \in keep : \A j \in keep : i >= j)

\* str.replace(" ", "")
RemoveSpaces(s) == SelectSeq(s, LAMBDA c : c # " ")

\* Results of calls that may raise: the value, or the exception that propagates
BytesOk(b) == [raised |-> FALSE, exc |-> "", bytes |-> b]
BytesRaise(e) == [raised |-> TRUE, exc |-> e, bytes |-> <<>>]
StrOk(s) == [raised |-> FALSE, exc |-> "", str |-> s]
StrRaise(e) == [raised |-> TRUE, exc |-> e, str |-> <<>>]

\* bytes.fromhex: whitespace is skipped between bytes, every byte is two hex digits
bytes_fromhex(s) ==
  LET Pairs(at) ==
        IF \/ Len(at) % 2 # 0
           \/ \E i \in 1..Len(at) : ~IsHex(s[at[i]])
           \/ \E k \in 1..(Len(at) \div 2) : at[2 * k] # at[2 * k - 1] + 1
        THEN BytesRaise("ValueError")
        ELSE BytesOk([k \in 1..(Len(at) \div 2) |->
                        16 * HexVal(s[at[2 * k - 1]]) + HexVal(s[at[2 * k]])])
  IN Pairs(SelectSeq([i \in 1..Len(s) |-> i], LAMBDA i : s[i] \notin Whitespace))

\* bytes.hex(): what the encrypting system writes into an envelope
ToHex(b) ==
  [i \in 1..(2 * Len(b)) |->
     IF i % 2 = 1 THEN HexDigits[(b[(i + 1) \div 2] \div 16) + 1]
     ELSE HexDigits[(b[i \div 2] % 16) + 1]]

\* str.encode('utf-8') on ASCII text
utf8_encode(s) == [i \in 1..Len(s) |-> CharCode(s[i])]

\* bytes.decode('utf-8'): a byte above 127 that starts no valid sequence raises
utf8_decode(b) ==
  IF \E i \in 1..Len(b) : b[i] >= 128 THEN StrRaise("UnicodeDecodeError")
  ELSE StrOk([i \in 1..Len(b) |-> CodeChar(b[i])])

----------------------------------------------------------------------------
(* AES-GCM of the cryptography library, as an ideal AEAD: decrypt accepts   *)
(* exactly what encrypt under the same key and nonce produced.              *)

TagLen == 16

\* The first n bytes of the keystream of a key and a nonce
KeyStream(key, iv, n) ==
  LET From(base) == [i \in 1..n |-> (base + i) % 256]
  IN From(Sum(key) + Sum(iv))

\* The tag of a ciphertext under a key and a nonce
AeadTag(key, iv, ct) ==
  LET From(base) == [j \in 1..TagLen |-> (base + j) % 256]
  IN From(Sum(key) + 3 * Sum(iv) + Sum(ct) + Len(ct))

\* AESGCM(key): the key must be 128, 192 or 256 bits
AESGCM_init(key) == IF Len(key) \in {16, 24, 32} THEN BytesOk(key) ELSE BytesRaise("ValueError")

\* AESGCM(key).encrypt(iv, data, None) = ciphertext || tag
AESGCM_encrypt(key, iv, pt) ==
  LET Seal(ct) == ct \o AeadTag(key, iv, ct)
      Mask(ks) == [i \in 1..Len(pt) |-> (pt[i] + ks[i]) % 256]
  IN Seal(Mask(KeyStream(key, iv, Len(pt))))

\* AESGCM(key).decrypt(iv, data, None)
AESGCM_decrypt(key, iv, data) ==
  IF Len(iv) < 8 \/ Len(iv) > 128 THEN BytesRaise("ValueError")
  ELSE IF Len(data) < TagLen THEN BytesRaise("InvalidTag")
  ELSE LET Open(ct, tag, ks) ==
             IF tag # AeadTag(key, iv, ct) THEN BytesRaise("InvalidTag")
             ELSE BytesOk([i \in 1..Len(ct) |-> (ct[i] + 256 - ks[i]) % 256])
       IN Open(SubSeq(data, 1, Len(data) - TagLen),
               SubSeq(data, Len(data) - TagLen + 1, Len(data)),
               KeyStream(key, iv, Len(data) - TagLen))

----------------------------------------------------------------------------
(* Values of the codec's domain *)

S_ENC == <<"E","N","C",":">>
S_DENC == <<"D","E","N","C",":">>
S_001 == <<"0","0","1">>
S_003 == <<"0","0","3">>
S_SPACED == <<" ","1","2"," ","3","4"," ">>
S_ENCWORD == <<"E","N","C">>
S_2PARTS == <<"E","N","C",":","a","a",":","b","b">>
S_4PARTS == <<"D","E","N","C",":","a","a",":","b","b",":","c","c",":","d","d">>
S_NONHEX == <<"E","N","C",":","z","z",":","b","b",":","c","c">>
S_SHORTIV == <<"E","N","C",":","a","a",":","b","b",":","c","c">>
S_DSHORTIV == <<"D","E","N","C",":","a","a",":","b","b",":","c","c">>
J_EMAIL == <<"{","\"","p","l","a","y","e","r","I","n","f","o","\"",":","{","\"","e","m","a","i","l","\"",":","\"","a","@","b","\"","}","}">>
J_NOEMAIL == <<"{","\"","p","l","a","y","e","r","I","n","f","o","\"",":","{","}","}">>
J_EMPTYOBJ == <<"{","}">>
J_ONE == <<"1">>
J_NULL == <<"n","u","l","l">>
J_EMAIL_NUM == <<"{","\"","p","l","a","y","e","r","I","n","f","o","\"",":","{","\"","e","m","a","i","l","\"",":","1","}","}">>
J_EMAIL_B == <<"{","\"","p","l","a","y","e","r","I","n","f","o","\"",":","{","\"","e","m","a","i","l","\"",":","\"","c","@","d","\"","}","}">>
J_EMAIL_BLANK == <<"{","\"","p","l","a","y","e","r","I","n","f","o","\"",":","{","\"","e","m","a","i","l","\"",":","\""," ","\"","}","}">>
S_EMAIL_B == <<"c","@","d">>
J_PINFO_STR == <<"{","\"","p","l","a","y","e","r","I","n","f","o","\"",":","\"","x","\"","}">>
S_EMAIL == <<"a","@","b">>

\* Optional strings (None or a str)
NoneStr == [some |-> FALSE, v |-> <<>>]
SomeStr(s) == [some |-> TRUE, v |-> s]

\* 32-byte keys and 96-bit nonces
K1 == [i \in 1..32 |-> 17]
K2 == [i \in 1..32 |-> 34]
IV1 == [i \in 1..12 |-> 1]
IV2 == [i \in 1..12 |-> 16 * i]
ValidKeys == {K1, K2}
IVs == {IV1, IV2}

\* Values of the ENCRYPTION_KEY environment variable
KeyUnset == NoneStr
KeyEmpty == SomeStr(<<>>)
KeyShort == SomeStr(ToHex(SubSeq(K1, 1, 16)))
KeyNonHex64 == SomeStr(Repeat("z", 64))
KeySpaced64 == SomeStr(ToHex(SubSeq(K1, 1, 31)) \o <<" ", " ">>)
KeyBlank64 == SomeStr(Repeat(" ", 64))
KeyHex(k) == SomeStr(ToHex(k))
EnvKeyValues ==
  {KeyUnset, KeyEmpty, KeyShort, KeyNonHex64, KeySpaced64, KeyBlank64, KeyHex(K1), KeyHex(K2)}

\* "exactly 64 hex characters"
Is64Hex(env) == env.some /\ Len(env.v) = 64 /\ \A i \in 1..64 : IsHex(env.v[i])

\* Parsed JSON documents, as far as the email run looks into them
EmAbsent == [t |-> "absent", s |-> <<>>]
EmStr(s) == [t |-> "str", s |-> s]
EmNum == [t |-> "num", s |-> <<>>]
PiAbsent == [t |-> "absent", email |-> EmAbsent]
PiObj(em) == [t |-> "obj", email |-> em]
PiStr == [t |-> "str", email |-> EmAbsent]
DocNone == [t |-> "none", playerInfo |-> PiAbsent]
DocNum == [t |-> "num", playerInfo |-> PiAbsent]
DocObj(pi) == [t |-> "obj", playerInfo |-> pi]
DocOk(d) == [raised |-> FALSE, exc |-> "", doc |-> d]
DocRaise(e) == [raised |-> TRUE, exc |-> e, doc |-> DocNone]

\* The JSON texts of the model and what json.loads returns for each
JsonTable ==
  { <<J_EMAIL, DocObj(PiObj(EmStr(S_EMAIL)))>>,
    <<J_NOEMAIL, DocObj(PiObj(EmAbsent))>>,
    <<J_EMPTYOBJ, DocObj(PiAbsent)>>,
    <<J_ONE, DocNum>>,
    <<J_NULL, DocNone>>,
    <<J_EMAIL_NUM, DocObj(PiObj(EmNum))>>,
    <<J_PINFO_STR, DocObj(PiStr)>>,
    <<J_EMAIL_B, DocObj(PiObj(EmStr(S_EMAIL_B)))>>,
    <<J_EMAIL_BLANK, DocObj(PiObj(EmStr(<<" ">>)))>> }

\* json.loads: the parsed document, or JSONDecodeError for a text that is no JSON
json_loads(s) ==
  IF \E e \in JsonTable : e[1] = s
  THEN DocOk((CHOOSE e \in JsonTable : e[1] = s)[2])
  ELSE DocRaise("JSONDecodeError")

----------------------------------------------------------------------------
(* IdentifierCodec *)

\* get_encryption_key(): None, the key bytes, or the ValueError of bytes.fromhex
KeyNone == [raised |-> FALSE, exc |-> "", some |-> FALSE, bytes |-> <<>>]

get_encryption_key(env) ==
  IF ~env.some \/ env.v = <<>> THEN KeyNone
  ELSE IF Len(env.v) # 64 THEN KeyNone
  ELSE LET Key(b) == [raised |-> b.raised, exc |-> b.exc, some |-> ~b.raised,
                       bytes |-> b.bytes]
       IN Key(bytes_fromhex(env.v))

\* What the try block of decrypt_account does with the three decoded fields:
\* AESGCM(key).decrypt(iv, encrypted_data + auth_tag, None).decode('utf-8')
DecryptFields(key, iv, auth_tag, encrypted_data) ==
  IF iv.raised \/ auth_tag.raised \/ encrypted_data.raised THEN StrRaise("ValueError")
  ELSE IF AESGCM_init(key).raised THEN StrRaise("ValueError")
  ELSE LET Decode(decrypted) ==
             IF decrypted.raised THEN StrRaise(decrypted.exc)
             ELSE utf8_decode(decrypted.bytes)
       IN Decode(AESGCM_decrypt(key, iv.bytes, encrypted_data.bytes \o auth_tag.bytes))

\* Mutant of DecryptParts: the tag is put in front of the ciphertext
DecryptParts_tag_first(s, key, parts) ==
  IF Len(parts) # 3 THEN StrOk(s)
  ELSE LET iv == bytes_fromhex(parts[1])
           auth_tag == bytes_fromhex(parts[2])
           encrypted_data == bytes_fromhex(parts[3])
       IN IF iv.raised \/ auth_tag.raised \/ encrypted_data.raised
          THEN StrRaise("ValueError")
          ELSE LET Decode(decrypted) ==
                     IF decrypted.raised THEN StrRaise(decrypted.exc)
                     ELSE utf8_decode(decrypted.bytes)
               IN Decode(AESGCM_decrypt(key, iv.bytes, auth_tag.bytes \o encrypted_data.bytes))

\* The try block of decrypt_account after the split: what it returns or raises
DecryptParts(s, key, parts) ==
  IF Len(parts) # 3 THEN StrOk(s)
  ELSE DecryptFields(key, bytes_fromhex(parts[1]), bytes_fromhex(parts[2]),
                     bytes_fromhex(parts[3]))

\* The try block of decrypt_account: remove the prefix and split on ':'
DecryptTry(s, key, prefix_length) ==
  DecryptParts(s, key, Split(SubSeq(s, prefix_length + 1, Len(s)), ":"))

\* Mutant of DecryptCaught: the except clause is missing, a failure propagates
DecryptUncaught(s, r) == r

\* try: ... except Exception: return encrypted_account
DecryptCaught(s, r) == IF r.raised THEN StrOk(s) ELSE r

\* decrypt_account once the prefix is recognised: key = get_encryption_key()
DecryptWithKey(s, key, prefix_length) ==
  IF key.raised THEN StrRaise(key.exc)
  ELSE IF ~key.some \/ key.bytes = <<>> THEN StrOk(s)
  ELSE DecryptCaught(s, DecryptTry(s, key.bytes, prefix_length))

\* decrypt_account(encrypted_account)
decrypt_account(s, env) ==
  IF s = <<>> THEN StrOk(s)
  ELSE LET is_standard_encrypted == StartsWith(s, S_ENC)
           is_deterministic_encrypted == StartsWith(s, S_DENC)
       IN IF ~is_standard_encrypted /\ ~is_deterministic_encrypted THEN StrOk(s)
          ELSE DecryptWithKey(s, get_encryption_key(env),
                              IF is_deterministic_encrypted THEN 5 ELSE 4)

\* json.loads(decrypted.decode('utf-8'))
JsonOfBytes(decrypted) ==
  IF decrypted.raised THEN DocRaise(decrypted.exc)
  ELSE LET Parse(text) == IF text.raised THEN DocRaise(text.exc) ELSE json_loads(text.str)
       IN Parse(utf8_decode(decrypted.bytes))

\* What the try block of decrypt_json does with the three decoded fields
DecryptJsonFields(key, iv, auth_tag, encrypted_data) ==
  IF iv.raised \/ auth_tag.raised \/ encrypted_data.raised THEN DocRaise("ValueError")
  ELSE IF AESGCM_init(key).raised THEN DocRaise("ValueError")
  ELSE JsonOfBytes(AESGCM_decrypt(key, iv.bytes, encrypted_data.bytes \o auth_tag.bytes))

\* The try block of decrypt_json after the split
DecryptJsonParts(key, parts) ==
  IF Len(parts) # 3 THEN DocOk(DocNone)
  ELSE DecryptJsonFields(key, bytes_fromhex(parts[1]), bytes_fromhex(parts[2]),
                         bytes_fromhex(parts[3]))

\* The try block of decrypt_json: remove 'ENC:' and split on ':'
DecryptJsonTry(s, key) == DecryptJsonParts(key, Split(SubSeq(s, 5, Len(s)), ":"))

\* try: ... except: return None
NoneIfRaised(r) == IF r.raised THEN DocOk(DocNone) ELSE r

\* decrypt_json once 'ENC:' is recognised: key = get_encryption_key()
DecryptJsonWithKey(s, key) ==
  IF key.raised THEN DocRaise(key.exc)
  ELSE IF ~key.some \/ key.bytes = <<>> THEN DocOk(DocNone)
  ELSE NoneIfRaised(DecryptJsonTry(s, key.bytes))

\* decrypt_json(encrypted_json)
decrypt_json(s, env) ==
  IF s = <<>> THEN DocOk(DocNone)
  ELSE IF ~StartsWith(s, S_ENC) THEN NoneIfRaised(json_loads(s))
  ELSE DecryptJsonWithKey(s, get_encryption_key(env))

\* Mutant of StripSpaces: the inner spaces are kept
StripSpaces_strip_only(decrypted) ==
  IF decrypted.raised THEN decrypted ELSE StrOk(Strip(decrypted.str))

\* decrypted.strip().replace(" ", "")
StripSpaces(decrypted) ==
  IF decrypted.raised THEN decrypted ELSE StrOk(RemoveSpaces(Strip(decrypted.str)))

\* normalize_account(account): account is None or a str
normalize_account(account, env) ==
  IF ~account.some THEN StrOk(<<>>)
  ELSE StripSpaces(decrypt_account(account.v, env))

\* The envelope the encrypting system writes for a plaintext: AEAD encryption,
\* then <PREFIX><iv-hex>:<tag-hex>:<ciphertext-hex>
encrypt(prefix, key, iv, plaintext) ==
  LET Envelope(out) ==
        prefix \o ToHex(iv) \o <<":">> \o ToHex(SubSeq(out, Len(out) - TagLen + 1, Len(out)))
               \o <<":">> \o ToHex(SubSeq(out, 1, Len(out) - TagLen))
  IN Envelope(AESGCM_encrypt(key, iv, utf8_encode(plaintext)))

----------------------------------------------------------------------------
(* The codec called on its own: SpecCodec *)

GivenInputs ==
  {<<>>, S_001, S_SPACED, S_ENCWORD, S_ENC, S_2PARTS, S_4PARTS, S_NONHEX,
   S_SHORTIV, S_DSHORTIV, J_EMAIL, J_ONE}

Plaintexts == {<<>>, S_001, S_SPACED, J_EMAIL}

NoRes == [op |-> "none", raised |-> FALSE, exc |-> "", str |-> <<>>, doc |-> DocNone]

NoCall == [some |-> FALSE, id |-> 0, account |-> <<>>, email |-> <<>>]

\* No update run
NoUpd == [csv |-> [kind |-> "none", rows |-> <<>>], dry_run |-> FALSE, table |-> <<>>,
          all_players |-> <<>>, accounts_to_update |-> {}, not_found_accounts |-> {},
          index |-> 0, matched_count |-> 0, updated_count |-> 0, updates |-> <<>>,
          before |-> <<>>,
          first |-> [some |-> FALSE, dry_run |-> FALSE, matched_count |-> 0,
                     updated_count |-> 0]]

\* No earlier run
NoPrev == [some |-> FALSE, mode |-> "", batch |-> <<>>, accounts |-> <<>>, index |-> 0,
           calls |-> <<>>, log |-> <<>>, files |-> {}]

\* The locator on its own does not take part in SpecCodec or in the batch run
NoLocCall == [account |-> <<>>, quarter |-> 0, year |-> 0, check_all_quarters |-> FALSE]

NoLocRes == [op |-> "none", found |-> FALSE, path |-> [folder |-> <<>>, name |-> <<>>],
             other |-> [folder |-> <<>>, name |-> <<>>], kind |-> ""]

LocIdle ==
  /\ uploads = [exists |-> FALSE, entries |-> {}]
  /\ lCall = NoLocCall /\ lOther = NoLocCall /\ lRes = NoLocRes

\* No function has been called on its own
NoResp == [kind |-> "none", status |-> 0, body |-> "empty"]
NoDispatchRes == [op |-> "none", result |-> [success |-> FALSE, error |-> [msg |-> "", status |-> 0]]]
NoCursor == [keys |-> <<>>, floor |-> <<>>, done |-> FALSE, out |-> <<>>]
FnIdle == dResp = NoResp /\ dRes = NoDispatchRes /\ cur = NoCursor

\* The batch run does not take part in SpecCodec
RunIdle ==
  /\ variant = "none" /\ pc = "idle" /\ token = ""
  /\ start_from_index = [some |-> FALSE, v |-> 0]
  /\ skip_existing = FALSE /\ filter_no_play_status = NoneStr
  /\ folder = [exists |-> FALSE, files |-> {}, elsewhere |-> {}]
  /\ store = {} /\ service = {} /\ periods = {} /\ prev = NoPrev /\ upd = NoUpd
  /\ stdin_line = <<>>
  /\ batch = <<>> /\ accounts = <<>> /\ total_accounts = 0
  /\ statement_period = NoneStr
  /\ existing_pdfs_set = {} /\ index = 0
  /\ inflight = NoCall
  /\ calls = <<>> /\ log = <<>>
  /\ success_count = 0 /\ skipped_count = 0 /\ error_count = 0 /\ errors = <<>>
  /\ exit_code = "running" /\ exit_reason = "" /\ connection = "none"

CodecInit ==
  /\ envKey \in EnvKeyValues
  /\ cInput \in GivenInputs
  /\ cOrigin = "given"
  /\ cPlain = <<>>
  /\ cEncKey = <<>>
  /\ cRes = NoRes
  /\ RunIdle
  /\ LocIdle /\ FnIdle

\* The encrypting system writes an envelope for a plaintext
Encrypt ==
  /\ cOrigin = "given" /\ cInput = <<>> /\ cRes.op = "none"
  /\ \E prefix \in {S_ENC, S_DENC}, k \in ValidKeys, iv \in IVs, p \in Plaintexts :
       /\ cInput' = encrypt(prefix, k, iv, p)
       /\ cPlain' = p
       /\ cEncKey' = k
  /\ cOrigin' = "encrypted"
  /\ UNCHANGED <<envKey, cRes, runVars, locVars, fnVars>>

\* The stored envelope is damaged: its ciphertext loses its last byte, or the first
\* hex digit of its tag changes
Truncated(s) == SubSeq(s, 1, Len(s) - 2)

TagFlipped(s) ==
  LET at == (IF StartsWith(s, S_DENC) THEN 5 ELSE 4) + 2 * 12 + 2
  IN [s EXCEPT ![at] = IF s[at] = "0" THEN "1" ELSE "0"]

Tamper ==
  /\ cOrigin = "encrypted" /\ cRes.op = "none"
  /\ \/ cPlain # <<>> /\ cInput' = Truncated(cInput)
     \/ cInput' = TagFlipped(cInput)
  /\ cOrigin' = "tampered"
  /\ UNCHANGED <<envKey, cPlain, cEncKey, cRes, runVars, locVars, fnVars>>

CallDecrypt ==
  /\ cRes.op = "none"
  /\ LET r == decrypt_account(cInput, envKey)
     IN cRes' = [op |-> "decrypt", raised |-> r.raised, exc |-> r.exc,
                 str |-> r.str, doc |-> DocNone]
  /\ UNCHANGED <<envKey, cInput, cOrigin, cPlain, cEncKey, runVars, locVars, fnVars>>

CallDecryptJson ==
  /\ cRes.op = "none"
  /\ LET r == decrypt_json(cInput, envKey)
     IN cRes' = [op |-> "decrypt_json", raised |-> r.raised, exc |-> r.exc,
                 str |-> <<>>, doc |-> r.doc]
  /\ UNCHANGED <<envKey, cInput, cOrigin, cPlain, cEncKey, runVars, locVars, fnVars>>

\* normalize_account(cInput), or normalize_account(None) when there is no input
CallNormalize ==
  /\ cRes.op = "none"
  /\ \E account \in {SomeStr(cInput)} \cup (IF cInput = <<>> THEN {NoneStr} ELSE {}) :
     \E r \in {normalize_account(account, envKey)} :
       cRes' = [op |-> IF account.some THEN "normalize" ELSE "normalize_none",
                raised |-> r.raised, exc |-> r.exc, str |-> r.str, doc |-> DocNone]
  /\ UNCHANGED <<envKey, cInput, cOrigin, cPlain, cEncKey, runVars, locVars, fnVars>>

CodecNext == Encrypt \/ Tamper \/ CallDecrypt \/ CallDecryptJson \/ CallNormalize

SpecCodec == CodecInit /\ [][CodecNext]_vars

----------------------------------------------------------------------------
(* Properties of the codec, checked under SpecCodec *)

\* The configured key is one of the valid 32-byte keys
ValidKeyConfigured == \E k \in ValidKeys : envKey = KeyHex(k)

\* cInput is an intact envelope written under the configured key
Decryptable == cOrigin = "encrypted" /\ envKey = KeyHex(cEncKey)

\* C6: with a valid 32-byte key configured, decrypt returns every input it cannot
\* decrypt (empty, unprefixed, wrong part count, non-hex part, wrong key, truncated
\* ciphertext, tag mismatch) unchanged and does not raise.
C6_DecryptFallsBack ==
  (cRes.op = "decrypt" /\ ValidKeyConfigured /\ ~Decryptable)
    => (~cRes.raised /\ cRes.str = cInput)

C6_Witness ==
  /\ cRes.op = "decrypt" /\ envKey = KeyHex(K1)
  /\ cOrigin = "tampered" /\ cEncKey = K1
  /\ ~cRes.raised /\ cRes.str = cInput

\* C7: for every envelope and every configured key value that is not exactly 64 hex
\* characters, decrypt returns the envelope unchanged and does not raise.
C7_NoKeyPassthrough ==
  (cRes.op = "decrypt" /\ ~Is64Hex(envKey))
    => (~cRes.raised /\ cRes.str = cInput)

\* C8: an envelope written by AEAD encryption of a plaintext under a valid key, with
\* either prefix, decrypts under that key to exactly the plaintext.
C8_RoundTrip ==
  (cRes.op = "decrypt" /\ Decryptable) => (~cRes.raised /\ cRes.str = cPlain)

C8_Witness ==
  /\ cRes.op = "decrypt" /\ Decryptable
  /\ StartsWith(cInput, S_DENC) /\ cPlain = S_001
  /\ cRes.str = S_001

\* C9: for an envelope in either tagged form whose plaintext under the configured
\* key is a valid JSON document, decryptJSON returns that parsed document.
C9_DecryptJsonBothForms ==
  (cRes.op = "decrypt_json" /\ Decryptable /\ ~json_loads(cPlain).raised)
    => (~cRes.raised /\ cRes.doc = json_loads(cPlain).doc)

\* C10: decryptJSON never raises, whatever the envelope and the configured key.
C10_DecryptJsonNeverRaises == cRes.op = "decrypt_json" => ~cRes.raised

\* The positions of s from its first to its last character that is no whitespace
\* which hold no space
KeptPositions(s) ==
  {i \in 1..Len(s) :
     /\ s[i] # " "
     /\ \E j \in 1..i : s[j] \notin Whitespace
     /\ \E j \in i..Len(s) : s[j] \notin Whitespace}

\* t is the text of s at the given positions, in their order
IsTextAt(t, s, positions) ==
  /\ Len(t) = Cardinality(positions)
  /\ \A i \in positions : t[Cardinality({j \in positions : j <= i})] = s[i]

\* C11: normalize maps an absent input to the empty string and any other input
\* to decrypt(input) with leading and trailing whitespace trimmed and every
\* space removed; with no key configured " 12 34 " becomes "1234"; the result
\* never contains a space.
C11_Normalize ==
  /\ cRes.op = "normalize_none" => (~cRes.raised /\ cRes.str = <<>>)
  /\ (cRes.op = "normalize" /\ ~decrypt_account(cInput, envKey).raised) =>
       /\ ~cRes.raised
       /\ IsTextAt(cRes.str, decrypt_account(cInput, envKey).str,
                   KeptPositions(decrypt_account(cInput, envKey).str))
       /\ \A i \in 1..Len(cRes.str) : cRes.str[i] # " "
  /\ (cRes.op = "normalize" /\ envKey = KeyUnset /\ cInput = S_SPACED) =>
       cRes.str = <<"1", "2", "3", "4">>

\* C11 witness: an envelope of " 12 34 " under the configured key was normalized
C11_Witness ==
  /\ cRes.op = "normalize" /\ Decryptable /\ cPlain = S_SPACED
  /\ cRes.str = <<"1", "2", "3", "4">>

----------------------------------------------------------------------------
(* ArtifactLocator *)

S_STATEMENT_Q == <<"S","t","a","t","e","m","e","n","t","_","Q">>
S_PDF == <<".","p","d","f">>
S_MEMBER == <<"m","e","m","b","e","r">>
S_A_001 == <<"A","_","0","0","1">>

\* A character of [a-zA-Z0-9_-]
IsSafeChar(c) ==
  \/ c \in {"_", "-"}
  \/ LET n == CharCode(c)
     IN (48 <= n /\ n <= 57) \/ (65 <= n /\ n <= 90) \/ (97 <= n /\ n <= 122)

\* Mutant of Sanitize: no fallback for an account that is left empty
Sanitize_no_fallback(account) == SelectSeq(account, IsSafeChar)

\* re.sub(r'[^a-zA-Z0-9_-]', '', account) or 'member'
Sanitize(account) ==
  LET kept == SelectSeq(account, IsSafeChar)
  IN IF kept = <<>> THEN S_MEMBER ELSE kept

\* str(n) of a natural number, as an f-string formats it
RECURSIVE IntStr(_)
IntStr(n) ==
  IF n < 10 THEN <<HexDigits[n + 1]>>
  ELSE IntStr(n \div 10) \o <<HexDigits[(n % 10) + 1]>>

\* f"q{quarter}-{year}"
quarter_folder_name(quarter, year) == <<"q">> \o IntStr(quarter) \o <<"-">> \o IntStr(year)

\* Mutant of get_expected_pdf_path: quarter and year are written without a
\* separator between them
get_expected_pdf_path_unseparated(account, quarter, year) ==
  [folder |-> <<"q">> \o IntStr(quarter) \o IntStr(year),
   name |-> S_STATEMENT_Q \o IntStr(quarter) \o IntStr(year) \o <<"_">>
              \o Sanitize(account) \o S_PDF]

\* get_expected_pdf_path: the folder and the file name of an account's statement
get_expected_pdf_path(account, quarter, year) ==
  [folder |-> quarter_folder_name(quarter, year),
   name |-> S_STATEMENT_Q \o IntStr(quarter) \o <<"_">> \o IntStr(year) \o <<"_">>
              \o Sanitize(account) \o S_PDF]

\* quarter_path.glob("Statement_Q*.pdf")
GlobStatement(name) ==
  /\ Len(name) >= Len(S_STATEMENT_Q) + Len(S_PDF)
  /\ StartsWith(name, S_STATEMENT_Q)
  /\ EndsWith(name, S_PDF)

\* Path.stem of a name that ends in .pdf
Stem(name) == SubSeq(name, 1, Len(name) - Len(S_PDF))

\* Mutant of AccountFromFile: everything after the third underscore
AccountFromFile_after_year(name) ==
  LET stem == Stem(name)
      at == SelectSeq([i \in 1..Len(stem) |-> i], LAMBDA i : stem[i] = "_")
  IN SubSeq(stem, at[3] + 1, Len(stem))

\* The account number read from a file name: parts[-1] of filename.split('_')
AccountFromFile(name) ==
  LET parts == Split(Stem(name), "_")
  IN parts[Len(parts)]

\* Mutant of ScanExisting: the statements of every quarter folder are collected
ScanExisting_all_quarters(fold) ==
  { AccountFromFile(f) :
      f \in { g \in fold.files \cup fold.elsewhere :
                GlobStatement(g) /\ Len(Split(Stem(g), "_")) >= 4 } }

\* The scan of the current quarter folder that builds existing_pdfs_set
ScanExisting(fold) ==
  IF ~fold.exists THEN {}
  ELSE { AccountFromFile(f) :
           f \in { g \in fold.files : GlobStatement(g) /\ Len(Split(Stem(g), "_")) >= 4 } }

\* Path.exists() and Path.is_file() of a path under the uploads directory
IsFileAt(up, path) ==
  /\ up.exists
  /\ \E e \in up.entries :
       /\ e.name = path.folder /\ e.is_dir
       /\ \E f \in e.files : f.name = path.name /\ f.is_file

\* re.match(r'^q[1-4]-\d{4}$', folder_name)
IsQuarterFolder(name) ==
  /\ Len(name) = 7
  /\ name[1] = "q"
  /\ name[2] \in {"1", "2", "3", "4"}
  /\ name[3] = "-"
  /\ \A i \in 4..7 : \E d \in 1..10 : HexDigits[d] = name[i]

\* quarter_folder.glob(f"Statement_Q*_{sanitized_account}.pdf")
GlobAccount(name, sanitized_account) ==
  /\ Len(name) >= Len(S_STATEMENT_Q) + 1 + Len(sanitized_account) + Len(S_PDF)
  /\ StartsWith(name, S_STATEMENT_Q)
  /\ EndsWith(name, <<"_">> \o sanitized_account \o S_PDF)

NoPath == [folder |-> <<>>, name |-> <<>>]

\* pdf_exists: the results (exists, found_path) the call can return; which match is
\* found first depends on the order in which the directories are listed
pdf_exists(account, quarter, year, up, check_all_quarters) ==
  IF IsFileAt(up, get_expected_pdf_path(account, quarter, year))
  THEN {[found |-> TRUE, path |-> get_expected_pdf_path(account, quarter, year)]}
  ELSE IF ~check_all_quarters \/ ~up.exists THEN {[found |-> FALSE, path |-> NoPath]}
  ELSE LET First(hits) ==
             IF hits = {} THEN {[found |-> FALSE, path |-> NoPath]}
             ELSE {[found |-> TRUE, path |-> h] : h \in hits}
       IN First(UNION { { [folder |-> e.name, name |-> f.name] :
                            f \in {g \in e.files :
                                     g.is_file /\ GlobAccount(g.name, Sanitize(account))} } :
                        e \in {d \in up.entries : d.is_dir /\ IsQuarterFolder(d.name)} })

\* The quarter folder of the uploads directory as the scan of the run sees it
QuarterFolderOf(up, quarter, year) ==
  IF up.exists /\ \E e \in up.entries : e.name = quarter_folder_name(quarter, year) /\ e.is_dir
  THEN [exists |-> TRUE,
        files |-> UNION { {f.name : f \in e.files} :
                          e \in {d \in up.entries :
                                   d.name = quarter_folder_name(quarter, year) /\ d.is_dir} },
        elsewhere |-> {}]
  ELSE [exists |-> FALSE, files |-> {}, elsewhere |-> {}]

----------------------------------------------------------------------------
(* StatementPeriod: parse_statement_period *)

\* str.upper() on one character
UpperChar(c) ==
  LET UpperLetters == <<"A","B","C","D","E","F","G","H","I","J","K","L","M","N","O","P","Q","R","S","T","U","V","W","X","Y","Z">>
      LowerLetters == <<"a","b","c","d","e","f","g","h","i","j","k","l","m","n","o","p","q","r","s","t","u","v","w","x","y","z">>
  IN IF \E i \in 1..26 : LowerLetters[i] = c
     THEN UpperLetters[CHOOSE i \in 1..26 : LowerLetters[i] = c]
     ELSE c

\* str.lower() on one character
LowerChar(c) ==
  LET UpperLetters == <<"A","B","C","D","E","F","G","H","I","J","K","L","M","N","O","P","Q","R","S","T","U","V","W","X","Y","Z">>
      LowerLetters == <<"a","b","c","d","e","f","g","h","i","j","k","l","m","n","o","p","q","r","s","t","u","v","w","x","y","z">>
  IN IF \E i \in 1..26 : UpperLetters[i] = c
     THEN LowerLetters[CHOOSE i \in 1..26 : UpperLetters[i] = c]
     ELSE c

IsDigit(c) == c \in {"0", "1", "2", "3", "4", "5", "6", "7", "8", "9"}

\* int() of a string of decimal digits
RECURSIVE IntOf(_)
IntOf(s) ==
  IF s = <<>> THEN 0
  ELSE 10 * IntOf(SubSeq(s, 1, Len(s) - 1)) + HexVal(s[Len(s)])

\* str.split(sep) for a separator of any length
RECURSIVE str_split(_, _)
str_split(s, sep) ==
  LET Cut(hits) ==
        IF hits = {} THEN <<s>>
        ELSE LET At(i) == <<SubSeq(s, 1, i - 1)>>
                             \o str_split(SubSeq(s, i + Len(sep), Len(s)), sep)
             IN At(CHOOSE i \in hits : \A j \in hits : i <= j)
  IN Cut({i \in 1..(Len(s) - Len(sep) + 1) : SubSeq(s, i, i + Len(sep) - 1) = sep})

\* The runs of characters between whitespace, as the \s+ of the strptime pattern
\* separates them
Words(s) ==
  LET EndOf(i) == CHOOSE j \in i..Len(s) :
                    /\ \A k \in i..j : s[k] \notin Whitespace
                    /\ (j = Len(s) \/ s[j + 1] \in Whitespace)
      Cut(starts) == [k \in 1..Len(starts) |-> SubSeq(s, starts[k], EndOf(starts[k]))]
  IN Cut(SelectSeq([i \in 1..Len(s) |-> i],
                   LAMBDA i : s[i] \notin Whitespace /\ (i = 1 \/ s[i - 1] \in Whitespace)))

\* calendar.month_name, in lower case
MonthNames ==
  << <<"j","a","n","u","a","r","y">>,
     <<"f","e","b","r","u","a","r","y">>,
     <<"m","a","r","c","h">>,
     <<"a","p","r","i","l">>,
     <<"m","a","y">>,
     <<"j","u","n","e">>,
     <<"j","u","l","y">>,
     <<"a","u","g","u","s","t">>,
     <<"s","e","p","t","e","m","b","e","r">>,
     <<"o","c","t","o","b","e","r">>,
     <<"n","o","v","e","m","b","e","r">>,
     <<"d","e","c","e","m","b","e","r">> >>

\* %d of strptime: 1..9, 01..09, 10..31
IsDayToken(w) ==
  \/ Len(w) = 1 /\ IsDigit(w[1]) /\ w[1] # "0"
  \/ Len(w) = 2 /\ IsDigit(w[1]) /\ IsDigit(w[2]) /\ IntOf(w) >= 1 /\ IntOf(w) <= 31

\* %B of strptime: a full month name, in any case
LowerWord(w) == [i \in 1..Len(w) |-> LowerChar(w[i])]
IsMonthToken(w) == \E m \in 1..12 : MonthNames[m] = LowerWord(w)
MonthOf(w) == CHOOSE m \in 1..12 : MonthNames[m] = LowerWord(w)

\* %Y of strptime: four digits
IsYearToken(w) == Len(w) = 4 /\ \A i \in 1..4 : IsDigit(w[i])

\* calendar.monthrange
DaysInMonth(m, y) ==
  LET IsLeap == (y % 4 = 0 /\ y % 100 # 0) \/ y % 400 = 0
  IN IF m = 2 THEN (IF IsLeap THEN 29 ELSE 28)
     ELSE IF m \in {4, 6, 9, 11} THEN 30 ELSE 31

DateOk(y, m, d) == [raised |-> FALSE, exc |-> "", y |-> y, m |-> m, d |-> d]
DateRaise(e) == [raised |-> TRUE, exc |-> e, y |-> 0, m |-> 0, d |-> 0]

\* datetime.strptime(s, '%d %B %Y') for a stripped s: the date, or ValueError
strptime(s) ==
  LET Parse(w) ==
        IF Len(w) # 3 THEN DateRaise("ValueError")
        ELSE IF ~(IsDayToken(w[1]) /\ IsMonthToken(w[2]) /\ IsYearToken(w[3]))
        THEN DateRaise("ValueError")
        ELSE IF IntOf(w[3]) < 1 \/ IntOf(w[1]) > DaysInMonth(MonthOf(w[2]), IntOf(w[3]))
        THEN DateRaise("ValueError")
        ELSE DateOk(IntOf(w[3]), MonthOf(w[2]), IntOf(w[1]))
  IN Parse(Words(s))

\* strftime('%Y-%m-%d')
strftime(date) ==
  LET TwoDigits(n) == <<HexDigits[(n \div 10) + 1], HexDigits[(n % 10) + 1]>>
  IN IntStr(date.y) \o <<"-">> \o TwoDigits(date.m) \o <<"-">> \o TwoDigits(date.d)

\* Results of parse_statement_period: (start_date, end_date), (None, None), or the
\* exception that propagates
PeriodOk(s, e) == [raised |-> FALSE, exc |-> "", some |-> TRUE, start_date |-> s, end_date |-> e]
NoPeriod == [raised |-> FALSE, exc |-> "", some |-> FALSE, start_date |-> <<>>, end_date |-> <<>>]
PeriodRaise(e) == [raised |-> TRUE, exc |-> e, some |-> FALSE, start_date |-> <<>>, end_date |-> <<>>]

\* The body of the try block; period_text is None or a str
PeriodTry(period_text) ==
  IF ~period_text.some THEN PeriodRaise("AttributeError")
  ELSE LET Dates(s, e) ==
             IF s.raised THEN PeriodRaise(s.exc)
             ELSE IF e.raised THEN PeriodRaise(e.exc)
             ELSE PeriodOk(strftime(s), strftime(e))
           Parts(parts) ==
             IF Len(parts) # 2 THEN NoPeriod
             ELSE Dates(strptime(Strip(parts[1])), strptime(Strip(parts[2])))
       IN Parts(str_split(period_text.v, <<" ", "-", " ">>))

\* Mutant of PeriodCaught: no except clause
PeriodUncaught(r) == r

\* except Exception: return None, None
PeriodCaught(r) == IF r.raised THEN NoPeriod ELSE r

parse_statement_period(period_text) == PeriodCaught(PeriodTry(period_text))

\* The period of a batch row: a quarter, or a row without period
P_Q4 == <<"1"," ","O","c","t","o","b","e","r"," ","2","0","2","5"," ","-"," ","3","1"," ","D","e","c","e","m","b","e","r"," ","2","0","2","5">>
RunPeriods == {SomeStr(P_Q4), NoneStr}

\* start_date and end_date of the run: parsed from the text (email), or the two
\* date columns formatted when both are set (export)
BatchDates(v, p) ==
  IF v = "email" THEN parse_statement_period(p)
  ELSE IF p.some THEN PeriodOk(<<>>, <<>>) ELSE NoPeriod

----------------------------------------------------------------------------
(* The external action *)

NoError == [msg |-> "", status |-> 0]

\* Mutant of generate_pdf_for_member: no except clauses
generate_pdf_for_member_uncaught(resp) ==
  IF resp.kind # "http" THEN [raised |-> TRUE, exc |-> resp.kind]
  ELSE IF resp.status = 200
       THEN IF resp.body \in {"text", "empty", "json_list"}
            THEN [raised |-> TRUE, exc |-> "body"]
            ELSE IF resp.body = "success" THEN [success |-> TRUE, error |-> NoError]
            ELSE IF resp.body \in {"failure_msg", "error_json"}
                 THEN [success |-> FALSE, error |-> [msg |-> "body.error", status |-> 0]]
            ELSE [success |-> FALSE, error |-> [msg |-> "Unknown error", status |-> 0]]
  ELSE IF resp.body \in {"failure_msg", "error_json"}
       THEN [success |-> FALSE, error |-> [msg |-> "body.error", status |-> 0]]
  ELSE IF resp.body \in {"success", "failure", "empty"}
       THEN [success |-> FALSE, error |-> [msg |-> "HTTP", status |-> resp.status]]
  ELSE [raised |-> TRUE, exc |-> "body"]

\* generate_pdf_for_member: (success, error_msg) for what requests.post did.
\* resp.kind is "http", "timeout", "connection" or "other"; an http response has a
\* status and a body: "success" {success: true}, "failure_msg" {success: false,
\* error: E}, "failure" {success: false}, "error_json" {error: E}, "json_list" [1],
\* "text" (not JSON), "empty"
generate_pdf_for_member(resp) ==
  IF resp.kind = "timeout" THEN [success |-> FALSE, error |-> [msg |-> "Request timeout", status |-> 0]]
  ELSE IF resp.kind = "connection"
       THEN [success |-> FALSE, error |-> [msg |-> "Connection error - is the API server running?", status |-> 0]]
  ELSE IF resp.kind = "other" THEN [success |-> FALSE, error |-> [msg |-> "str(e)", status |-> 0]]
  ELSE IF resp.status = 200
       THEN IF resp.body \in {"text", "empty", "json_list"}
            THEN [success |-> FALSE, error |-> [msg |-> "str(e)", status |-> 0]]
            ELSE IF resp.body = "success" THEN [success |-> TRUE, error |-> NoError]
            ELSE IF resp.body \in {"failure_msg", "error_json"}
                 THEN [success |-> FALSE, error |-> [msg |-> "body.error", status |-> 0]]
            ELSE [success |-> FALSE, error |-> [msg |-> "Unknown error", status |-> 0]]
  ELSE IF resp.body \in {"failure_msg", "error_json"}
       THEN [success |-> FALSE, error |-> [msg |-> "body.error", status |-> 0]]
  ELSE IF resp.body \in {"success", "failure"}
       THEN [success |-> FALSE, error |-> [msg |-> "HTTP", status |-> resp.status]]
  ELSE IF resp.body = "empty"
       THEN [success |-> FALSE, error |-> [msg |-> "HTTP", status |-> resp.status]]
  ELSE [success |-> FALSE, error |-> [msg |-> "response.text", status |-> 0]]

\* send_no_play_email classifies the response the same way
send_no_play_email(resp) == generate_pdf_for_member(resp)

RespSuccess == [kind |-> "http", status |-> 200, body |-> "success"]
RespFailure == [kind |-> "http", status |-> 200, body |-> "failure_msg"]
RespTimeout == [kind |-> "timeout", status |-> 0, body |-> "empty"]
Responses == {RespSuccess, RespFailure, RespTimeout}

\* Every way a call can end: success, explicit failure with and without a message,
\* a 200 answer that is no JSON object, non-2xx answers, timeout, connection error,
\* any other fault
AllResponses ==
  Responses \cup
  { [kind |-> "http", status |-> 200, body |-> "failure"],
    [kind |-> "http", status |-> 200, body |-> "text"],
    [kind |-> "http", status |-> 500, body |-> "empty"],
    [kind |-> "http", status |-> 500, body |-> "error_json"],
    [kind |-> "connection", status |-> 0, body |-> "empty"],
    [kind |-> "other", status |-> 0, body |-> "empty"] }

----------------------------------------------------------------------------
(* The batch run: Spec *)

MaxRecords == 3

BatchQuarter == 3
BatchYear == 2025

Rec(acct, is_email, data, status) ==
  [id |-> 0, account_number |-> acct, is_email |-> is_email, player_data |-> data,
   no_play_status |-> status]

\* Rows of quarterly_user_statements
ExportRows ==
  { Rec(SomeStr(a), 0, NoneStr, "") : a \in {<<>>, S_001, S_003, S_A_001} }

\* Rows of no_play_players
EmailRows ==
  { Rec(SomeStr(S_001), 1, SomeStr(encrypt(S_ENC, K1, IV1, J_EMAIL)), "No Play"),
    Rec(SomeStr(S_003), 1, SomeStr(J_EMAIL), "Play"),
    Rec(SomeStr(<<>>), 1, SomeStr(J_EMAIL), "No Play"),
    Rec(SomeStr(S_003), 0, SomeStr(J_EMAIL), "No Play"),
    Rec(SomeStr(S_001), 1, SomeStr(J_NOEMAIL), "Play") }

\* What the store returns for a batch: the rows in fetch order, id = row position
WithIds(f) == [i \in DOMAIN f |-> [f[i] EXCEPT !.id = i]]

StartIndexValues ==
  {[some |-> FALSE, v |-> 0]} \cup {[some |-> TRUE, v |-> k] : k \in (-1)..(MaxRecords + 1)}

\* The statements already in the current quarter folder
ArtifactFile(account) == get_expected_pdf_path(account, BatchQuarter, BatchYear).name

NoFolder == [exists |-> FALSE, files |-> {}, elsewhere |-> {}]

\* A statement of account 001 in the folder of the quarter before
ElsewhereFile == get_expected_pdf_path(S_001, BatchQuarter - 1, BatchYear).name

FolderStates ==
  {NoFolder, [NoFolder EXCEPT !.elsewhere = {ElsewhereFile}]}
    \cup {[exists |-> TRUE, files |-> fs, elsewhere |-> {}] :
             fs \in SUBSET {ArtifactFile(S_001), ArtifactFile(S_A_001)}}

CodecIdle ==
  /\ cInput = <<>> /\ cOrigin = "given" /\ cPlain = <<>> /\ cEncKey = <<>> /\ cRes = NoRes

Init ==
  /\ envKey = KeyHex(K1)
  /\ CodecIdle
  /\ LocIdle /\ FnIdle
  /\ variant \in {"export", "email"}
  /\ pc = "start"
  /\ token \in {"", "tok"}
  /\ start_from_index \in StartIndexValues
  /\ skip_existing \in (IF variant = "export" THEN BOOLEAN ELSE {FALSE})
  /\ filter_no_play_status \in
       (IF variant = "email" THEN {NoneStr, [some |-> TRUE, v |-> "No Play"]} ELSE {NoneStr})
  /\ folder \in (IF skip_existing THEN FolderStates ELSE {NoFolder})
  /\ store = (IF variant = "export" THEN ExportRows ELSE EmailRows)
  /\ service = Responses
  /\ periods = RunPeriods /\ prev = NoPrev /\ upd = NoUpd
  /\ stdin_line \in {<<"Y">>, <<"N">>}
  /\ batch = <<>> /\ accounts = <<>> /\ total_accounts = 0
  /\ statement_period = NoneStr
  /\ existing_pdfs_set = {} /\ index = 0
  /\ inflight = NoCall
  /\ calls = <<>> /\ log = <<>>
  /\ success_count = 0 /\ skipped_count = 0 /\ error_count = 0 /\ errors = <<>>
  /\ exit_code = "running" /\ exit_reason = "" /\ connection = "none"

\* Leaving the function: the finally clause closes an open connection
\* Mutant of Leave: the function is left without its finally clause
Leave_no_finally(code, reason) ==
  /\ pc' = (IF reason = "completed" THEN "finished" ELSE "aborted")
  /\ exit_code' = code
  /\ exit_reason' = reason
  /\ connection' = connection

Leave(code, reason) ==
  /\ pc' = (IF reason = "completed" THEN "finished" ELSE "aborted")
  /\ exit_code' = code
  /\ exit_reason' = reason
  /\ connection' = (IF connection = "open" THEN "closed" ELSE connection)

inputVars == <<envKey, cInput, cOrigin, cPlain, cEncKey, cRes, variant, token,
               start_from_index, skip_existing, filter_no_play_status, folder,
               store, service, stdin_line, periods, prev, upd, locVars, fnVars>>
loopVars == <<index, inflight, calls, log, success_count, skipped_count, error_count, errors>>
fetchVars == <<batch, accounts, total_accounts, existing_pdfs_set, statement_period>>

\* Mutant of CheckToken: the run goes on without a token
CheckToken_unchecked ==
  /\ pc = "start"
  /\ pc' = "connect"
  /\ UNCHANGED <<exit_code, exit_reason, connection>>
  /\ UNCHANGED <<inputVars, fetchVars, loopVars>>

\* token = token or API_TOKEN; if not token: sys.exit(1)
CheckToken ==
  /\ pc = "start"
  /\ IF token = ""
     THEN Leave("exit1", "no_token")
     ELSE /\ pc' = "connect"
          /\ UNCHANGED <<exit_code, exit_reason, connection>>
  /\ UNCHANGED <<inputVars, fetchVars, loopVars>>

\* get_db_connection(): the connection, or sys.exit(1) on a connector error
Connect ==
  /\ pc = "connect"
  /\ \E ok \in BOOLEAN :
       IF ok
       THEN /\ connection' = "open"
            /\ pc' = "get_batch"
            /\ UNCHANGED <<exit_code, exit_reason>>
       ELSE Leave("exit1", "connect_error")
  /\ UNCHANGED <<inputVars, fetchVars, loopVars>>

\* The batch is chosen (argument or prompt) and looked up
GetBatch ==
  /\ pc = "get_batch"
  /\ \E outcome \in {"found", "no_batches", "quit", "batch_not_found"} :
       IF outcome = "found"
       THEN /\ pc' = "prepare"
            /\ UNCHANGED <<exit_code, exit_reason, connection>>
       ELSE IF outcome = "batch_not_found" THEN Leave("exit1", outcome)
       ELSE Leave("return", outcome)
  /\ UNCHANGED <<inputVars, fetchVars, loopVars>>

\* Mutant of SliceFromIndex: the slice starts one record late
SliceFromIndex_late(accs, sfi) ==
  IF ~sfi.some \/ sfi.v = 0 THEN [err |-> "", accounts |-> accs]
  ELSE IF sfi.v < 1 THEN [err |-> "index_lt_1", accounts |-> accs]
  ELSE IF sfi.v > Len(accs) THEN [err |-> "index_gt_total", accounts |-> accs]
  ELSE [err |-> "", accounts |-> SubSeq(accs, sfi.v + 1, Len(accs))]

\* `if start_from_index:` with its two range checks and accounts[start_from_index - 1:]
SliceFromIndex(accs, sfi) ==
  IF ~sfi.some \/ sfi.v = 0 THEN [err |-> "", accounts |-> accs]
  ELSE IF sfi.v < 1 THEN [err |-> "index_lt_1", accounts |-> accs]
  ELSE IF sfi.v > Len(accs) THEN [err |-> "index_gt_total", accounts |-> accs]
  ELSE [err |-> "", accounts |-> SubSeq(accs, sfi.v, Len(accs))]

\* Mutant of FilterStatus: the filter is not applied
FilterStatus_unfiltered(accs, flt) == accs

\* [acc for acc in accounts if acc.get('no_play_status') == filter_no_play_status]
FilterStatus(accs, flt) ==
  IF flt.some THEN SelectSeq(accs, LAMBDA r : r.no_play_status = flt.v) ELSE accs

\* extract_email_from_player_data: the email field, or None
extract_email_from_player_data(doc) ==
  IF doc.t = "none" THEN EmAbsent
  ELSE IF doc.t # "obj" THEN EmAbsent
  ELSE IF doc.playerInfo.t # "obj" THEN EmAbsent
  ELSE doc.playerInfo.email

\* `email and email.strip()`: str.strip exists only on a str
EmailUsable(em) ==
  IF em.t \in {"absent", "null"} THEN [raised |-> FALSE, ok |-> FALSE]
  ELSE IF em.t = "str" THEN [raised |-> FALSE, ok |-> Strip(em.s) # <<>>]
  ELSE [raised |-> TRUE, ok |-> FALSE]

\* email = extract_email_from_player_data(player_data), then `email and email.strip()`
EmailOf(pd) ==
  IF pd.raised THEN [raised |-> TRUE, ok |-> FALSE, email |-> <<>>]
  ELSE LET Usable(email, u) == [raised |-> u.raised, ok |-> u.ok, email |-> email.s]
       IN Usable(extract_email_from_player_data(pd.doc),
                 EmailUsable(extract_email_from_player_data(pd.doc)))

\* decrypt_json(player_data_json) if player_data_json else None, then the email
PayloadEmail(rec, env) ==
  EmailOf(IF rec.player_data.some /\ rec.player_data.v # <<>>
          THEN decrypt_json(rec.player_data.v, env)
          ELSE DocOk(DocNone))

Decision(kind, account, email) == [kind |-> kind, account |-> account, email |-> email]

\* Mutant of ExportDecide: the quarter folder is looked at again for every record
ExportDecide_rescan(n, skip, existing) ==
  IF n.raised THEN Decision("raise", <<>>, <<>>)
  ELSE IF n.str = <<>> THEN Decision("skip_empty", <<>>, <<>>)
  ELSE IF skip /\ Sanitize(n.str) \in ScanExisting(folder)
       THEN Decision("skip_exists", n.str, <<>>)
  ELSE Decision("dispatch", n.str, <<>>)

\* The export iteration once the account is normalized
ExportDecide(n, skip, existing) ==
  IF n.raised THEN Decision("raise", <<>>, <<>>)
  ELSE IF n.str = <<>> THEN Decision("skip_empty", <<>>, <<>>)
  ELSE IF skip /\ Sanitize(n.str) \in existing THEN Decision("skip_exists", n.str, <<>>)
  ELSE Decision("dispatch", n.str, <<>>)

\* One iteration of the export loop up to the external call: which way it goes
ExportDecision(rec, env, skip, existing) ==
  ExportDecide(normalize_account(rec.account_number, env), skip, existing)

\* The email iteration once is_email has been checked
EmailDecidePayload(account, p) ==
  IF p.raised THEN Decision("raise", account, <<>>)
  ELSE IF ~p.ok THEN Decision("skip_noemail", account, <<>>)
  ELSE Decision("dispatch", account, p.email)

\* Mutant of EmailDecide: the is_email flag is not looked at
EmailDecide_ignore_flag(rec, env, n) ==
  IF n.raised THEN Decision("raise", <<>>, <<>>)
  ELSE IF n.str = <<>> THEN Decision("skip_empty", <<>>, <<>>)
  ELSE EmailDecidePayload(n.str, PayloadEmail(rec, env))

\* The email iteration once the account is normalized
EmailDecide(rec, env, n) ==
  IF n.raised THEN Decision("raise", <<>>, <<>>)
  ELSE IF n.str = <<>> THEN Decision("skip_empty", <<>>, <<>>)
  ELSE IF rec.is_email # 1 THEN Decision("skip_optout", n.str, <<>>)
  ELSE EmailDecidePayload(n.str, PayloadEmail(rec, env))

\* One iteration of the email loop up to the external call: which way it goes
EmailDecision(rec, env) == EmailDecide(rec, env, normalize_account(rec.account_number, env))

\* Mutant of CountedAs: a record with an empty account is not counted
CountedAs_empty_uncounted(kind) ==
  IF kind \in {"skip_exists", "skip_optout", "skip_noemail"} THEN "skipped"
  ELSE "none"

\* The counter each way of an iteration adds to
CountedAs(kind) ==
  IF kind = "skip_empty" THEN "error"
  ELSE IF kind \in {"skip_exists", "skip_optout", "skip_noemail"} THEN "skipped"
  ELSE "none"

\* The accounts are fetched and everything up to the confirmation prompt runs:
\* empty batch, status filter, resume index, period of the batch, scan of the
\* quarter folder (export), count of the email preferences (email). A later run
\* over the same batch fetches the rows the earlier run fetched.
Prepare ==
  /\ pc = "prepare"
  /\ \E n \in 0..MaxRecords, p \in periods :
     \E dates \in {BatchDates(variant, p)} :
     \E f \in [1..n -> store] :
     \E b \in {WithIds(f)} :
     \E sl \in {SliceFromIndex(FilterStatus(b, filter_no_play_status), start_from_index)} :
          /\ prev.some => b = prev.batch
          /\ batch' = b
          /\ IF b = <<>>
             THEN /\ Leave("return", "no_accounts")
                  /\ UNCHANGED <<accounts, total_accounts, existing_pdfs_set, statement_period>>
             ELSE /\ total_accounts' = Len(b)
                  /\ accounts' = sl.accounts
                  /\ IF sl.err # ""
                     THEN /\ Leave("exit1", sl.err)
                          /\ UNCHANGED <<existing_pdfs_set, statement_period>>
                     ELSE /\ statement_period' = p
                          /\ IF dates.raised
                             THEN Leave("raised", "exception") /\ UNCHANGED existing_pdfs_set
                             ELSE IF ~dates.some
                             THEN Leave("exit1", "no_dates") /\ UNCHANGED existing_pdfs_set
                             ELSE IF variant = "email"
                                      /\ \E i \in 1..Len(sl.accounts) :
                                           PayloadEmail(sl.accounts[i], envKey).raised
                             THEN Leave("raised", "exception") /\ UNCHANGED existing_pdfs_set
                             ELSE /\ existing_pdfs_set' =
                                       (IF skip_existing THEN ScanExisting(folder) ELSE {})
                                  /\ pc' = "confirm"
                                  /\ UNCHANGED <<exit_code, exit_reason, connection>>
  /\ UNCHANGED <<inputVars, loopVars>>

\* confirmation = input("Proceed ...? (Y/N)").strip().upper()
Confirm ==
  /\ pc = "confirm"
  /\ \E confirmation \in {[i \in 1..Len(Strip(stdin_line)) |-> UpperChar(Strip(stdin_line)[i])]} :
       IF confirmation = <<"Y">>
       THEN pc' = "loop" /\ UNCHANGED <<exit_code, exit_reason, connection>>
       ELSE Leave("return", "cancelled")
  /\ UNCHANGED <<inputVars, fetchVars, loopVars>>

\* Mutant of ProcessRecord: the next iteration starts while a call is in flight
ProcessRecord_no_wait ==
  /\ pc = "loop" /\ index < Len(accounts)
  /\ \E account_record \in {accounts[index + 1]} :
     \E d \in {IF variant = "export"
               THEN ExportDecision(account_record, envKey, skip_existing, existing_pdfs_set)
               ELSE EmailDecision(account_record, envKey)} :
       IF d.kind = "raise"
       THEN /\ Leave("raised", "exception")
            /\ UNCHANGED loopVars
       ELSE /\ index' = index + 1
            /\ error_count' = error_count + (IF CountedAs(d.kind) = "error" THEN 1 ELSE 0)
            /\ skipped_count' = skipped_count + (IF CountedAs(d.kind) = "skipped" THEN 1 ELSE 0)
            /\ log' = (IF d.kind = "dispatch" THEN log
                       ELSE Append(log, [id |-> account_record.id, outcome |-> d.kind]))
            /\ inflight' = (IF d.kind = "dispatch"
                            THEN [some |-> TRUE, id |-> account_record.id,
                                  account |-> d.account, email |-> d.email]
                            ELSE inflight)
            /\ calls' = (IF d.kind = "dispatch"
                         THEN Append(calls, [id |-> account_record.id,
                                             account |-> d.account, email |-> d.email])
                         ELSE calls)
            /\ UNCHANGED <<success_count, errors, pc, exit_code, exit_reason, connection>>
  /\ UNCHANGED <<inputVars, fetchVars>>

\* One iteration of the loop, up to its `continue` or to the external call
ProcessRecord ==
  /\ pc = "loop" /\ ~inflight.some /\ index < Len(accounts)
  /\ \E account_record \in {accounts[index + 1]} :
     \E d \in {IF variant = "export"
               THEN ExportDecision(account_record, envKey, skip_existing, existing_pdfs_set)
               ELSE EmailDecision(account_record, envKey)} :
       IF d.kind = "raise"
       THEN /\ Leave("raised", "exception")
            /\ UNCHANGED loopVars
       ELSE /\ index' = index + 1
            /\ error_count' = error_count + (IF CountedAs(d.kind) = "error" THEN 1 ELSE 0)
            /\ skipped_count' = skipped_count + (IF CountedAs(d.kind) = "skipped" THEN 1 ELSE 0)
            /\ log' = (IF d.kind = "dispatch" THEN log
                       ELSE Append(log, [id |-> account_record.id, outcome |-> d.kind]))
            /\ inflight' = (IF d.kind = "dispatch"
                            THEN [some |-> TRUE, id |-> account_record.id,
                                  account |-> d.account, email |-> d.email]
                            ELSE NoCall)
            /\ calls' = (IF d.kind = "dispatch"
                         THEN Append(calls, [id |-> account_record.id,
                                             account |-> d.account, email |-> d.email])
                         ELSE calls)
            /\ UNCHANGED <<success_count, errors, pc, exit_code, exit_reason, connection>>
  /\ UNCHANGED <<inputVars, fetchVars>>

\* Mutant of Respond: a failed call is issued again
Respond_retry ==
  /\ pc = "loop" /\ inflight.some
  /\ \E resp \in service :
     \E r \in {generate_pdf_for_member(resp)} :
          IF r.success
          THEN /\ success_count' = success_count + 1
               /\ log' = Append(log, [id |-> inflight.id, outcome |-> "success"])
               /\ inflight' = NoCall
               /\ UNCHANGED <<error_count, errors, calls>>
          ELSE /\ calls' = Append(calls, [id |-> inflight.id, account |-> inflight.account,
                                          email |-> inflight.email])
               /\ UNCHANGED <<success_count, log, inflight, error_count, errors>>
  /\ UNCHANGED <<inputVars, fetchVars, index, skipped_count, pc, exit_code,
                 exit_reason, connection>>

\* Mutant of Respond: a failed call ends the run
Respond_stop_on_failure ==
  /\ pc = "loop" /\ inflight.some
  /\ \E resp \in service :
     \E r \in {generate_pdf_for_member(resp)} :
          IF r.success
          THEN /\ success_count' = success_count + 1
               /\ log' = Append(log, [id |-> inflight.id, outcome |-> "success"])
               /\ UNCHANGED <<error_count, errors, pc, exit_code, exit_reason, connection>>
          ELSE /\ error_count' = error_count + 1
               /\ errors' = Append(errors, [account |-> inflight.account,
                                            email |-> inflight.email, error |-> r.error])
               /\ log' = Append(log, [id |-> inflight.id, outcome |-> "failed"])
               /\ Leave("raised", "exception")
               /\ UNCHANGED success_count
  /\ inflight' = NoCall
  /\ UNCHANGED <<inputVars, fetchVars, index, calls, skipped_count>>

\* The external call returns or fails, and the iteration counts it
Respond ==
  /\ pc = "loop" /\ inflight.some
  /\ \E resp \in service :
     \E r \in {IF variant = "export" THEN generate_pdf_for_member(resp)
               ELSE send_no_play_email(resp)} :
          IF r.success
          THEN /\ success_count' = success_count + 1
               /\ log' = Append(log, [id |-> inflight.id, outcome |-> "success"])
               /\ UNCHANGED <<error_count, errors>>
          ELSE /\ error_count' = error_count + 1
               /\ errors' = Append(errors, [account |-> inflight.account,
                                            email |-> inflight.email, error |-> r.error])
               /\ log' = Append(log, [id |-> inflight.id, outcome |-> "failed"])
               /\ UNCHANGED success_count
  /\ inflight' = NoCall
  /\ UNCHANGED <<inputVars, fetchVars, index, calls, skipped_count, pc, exit_code,
                 exit_reason, connection>>

\* The loop is over: the summary is printed and the function returns
Finish ==
  /\ pc = "loop" /\ ~inflight.some /\ index = Len(accounts)
  /\ Leave("return", "completed")
  /\ UNCHANGED <<inputVars, fetchVars, loopVars>>

Next ==
  CheckToken \/ Connect \/ GetBatch \/ Prepare \/ Confirm \/ ProcessRecord \/ Respond \/ Finish

Spec == Init /\ [][Next]_vars

(***************************************************************************)
(* BatchCursor: resume by account floor (startFromAccount)                 *)
(***************************************************************************)

\* Mutant of AccountLess: the keys are always compared as strings
AccountLess_as_strings(a, b) ==
  LET RECURSIVE LexLess(_, _)
      LexLess(x, y) ==
        IF y = <<>> THEN FALSE
        ELSE IF x = <<>> THEN TRUE
        ELSE IF x[1] # y[1] THEN CharCode(x[1]) < CharCode(y[1])
        ELSE LexLess(Tail(x), Tail(y))
  IN LexLess(a, b)

\* key < floor: as integers when both sides consist only of digits, else as strings
AccountLess(a, b) ==
  LET RECURSIVE LexLess(_, _)
      LexLess(x, y) ==
        IF y = <<>> THEN FALSE
        ELSE IF x = <<>> THEN TRUE
        ELSE IF x[1] # y[1] THEN CharCode(x[1]) < CharCode(y[1])
        ELSE LexLess(Tail(x), Tail(y))
      AllDigits(x) == x # <<>> /\ \A i \in 1..Len(x) : IsDigit(x[i])
  IN IF AllDigits(a) /\ AllDigits(b) THEN IntOf(a) < IntOf(b) ELSE LexLess(a, b)

\* startFromAccount: the leading records below the floor are dropped
RECURSIVE DropBelowFloor(_, _)
DropBelowFloor(keys, floor) ==
  IF keys = <<>> THEN <<>>
  ELSE IF AccountLess(Head(keys), floor) THEN DropBelowFloor(Tail(keys), floor)
  ELSE keys

\* The account keys of the records and of the floor
FloorKeys == { <<"9">>, <<"1","0">>, <<"0","9">>, <<"1","0","0">>, <<"A","1">>, <<"1","a">> }

FloorInit ==
  /\ envKey = KeyUnset /\ CodecIdle /\ RunIdle /\ LocIdle
  /\ dResp = NoResp /\ dRes = NoDispatchRes
  /\ cur \in { [keys |-> k, floor |-> f, done |-> FALSE, out |-> <<>>] :
                 k \in UNION { [1..n -> FloorKeys] : n \in 0..MaxRecords }, f \in FloorKeys }

\* The cursor is built with startFromAccount = cur.floor
ApplyFloor ==
  /\ ~cur.done
  /\ cur' = [cur EXCEPT !.done = TRUE, !.out = DropBelowFloor(cur.keys, cur.floor)]
  /\ UNCHANGED <<codecVars, runVars, locVars, dResp, dRes>>

SpecFloor == FloorInit /\ [][ApplyFloor]_vars

(***************************************************************************)
(* The eligibility update: update_is_email_from_csv                        *)
(***************************************************************************)

\* normalize_account(account) of the update script: None is written <<>>, which
\* gives the same result ""
update_normalize_account(account) == RemoveSpaces(Strip(account))

\* Mutant of read_csv_accounts: the Is Email column is not looked at
read_csv_accounts_every_row(csv) ==
  IF csv.kind = "missing" THEN [exit |-> TRUE, accounts |-> {}]
  ELSE [exit |-> FALSE,
        accounts |-> {update_normalize_account(Strip(csv.rows[i].account)) :
                        i \in 1..Len(csv.rows)} \ {<<>>}]

\* read_csv_accounts(csv_path): the file is missing or unreadable (sys.exit(1)),
\* has no account or no Is Email column (empty result), or has rows
read_csv_accounts(csv) ==
  LET TrueWords == {<<"T","R","U","E">>, <<"1">>, <<"Y","E","S">>, <<"Y">>, <<"T">>}
      Upper(w) == [i \in 1..Len(w) |-> UpperChar(w[i])]
      Listed(row) ==
        /\ Strip(row.account) # <<>>
        /\ Upper(Strip(row.is_email)) \in TrueWords
        /\ update_normalize_account(Strip(row.account)) # <<>>
  IN IF csv.kind = "missing" THEN [exit |-> TRUE, accounts |-> {}]
     ELSE IF csv.kind = "no_columns" THEN [exit |-> FALSE, accounts |-> {}]
     ELSE [exit |-> FALSE,
           accounts |-> {update_normalize_account(Strip(csv.rows[i].account)) :
                           i \in {j \in 1..Len(csv.rows) : Listed(csv.rows[j])}}]

\* The CSV files given to the update
CsvRow(a, e) == [account |-> a, is_email |-> e]
CsvFiles ==
  { [kind |-> "missing", rows |-> <<>>],
    [kind |-> "no_columns", rows |-> <<>>],
    [kind |-> "rows", rows |-> << CsvRow(S_001, <<"T","R","U","E">>),
                                  CsvRow(S_003, <<"Y">>) >>],
    [kind |-> "rows", rows |-> << CsvRow(S_SPACED, <<" ","y"," ">>),
                                  CsvRow(<<" ">>, <<"t">>) >>],
    [kind |-> "rows", rows |-> << CsvRow(S_003, <<"f","a","l","s","e">>),
                                  CsvRow(S_001, <<"0">>) >>],
    [kind |-> "rows", rows |-> << CsvRow(encrypt(S_DENC, K1, IV1, S_003), <<"1">>),
                                  CsvRow(S_001, <<"y","e","s">>),
                                  CsvRow(S_003, <<"n","o">>) >>] }

\* The rows the no_play_players table may hold
PlayerRows ==
  { [account_number |-> encrypt(S_ENC, K1, IV1, S_001), is_email |-> 0],
    [account_number |-> S_001, is_email |-> 1],
    [account_number |-> encrypt(S_DENC, K1, IV1, S_003), is_email |-> 0],
    [account_number |-> <<"1","2","3","4">>, is_email |-> 0] }
PlayerTables ==
  UNION { { [i \in 1..n |-> [id |-> i, account_number |-> f[i].account_number,
                             is_email |-> f[i].is_email]] : f \in [1..n -> PlayerRows] }
          : n \in 0..MaxRecords }

updFrame == <<codecVars, locVars, fnVars, variant, token, start_from_index, skip_existing,
              filter_no_play_status, folder, store, service, stdin_line, periods, prev,
              fetchVars, loopVars>>

UpdateInit ==
  /\ envKey \in {KeyHex(K1), KeyHex(K2), KeyNonHex64}
  /\ CodecIdle
  /\ LocIdle /\ FnIdle
  /\ variant = "update"
  /\ pc = "u_start"
  /\ token = ""
  /\ start_from_index = NoneStr
  /\ skip_existing = FALSE
  /\ filter_no_play_status = NoneStr
  /\ folder = NoFolder
  /\ store = {} /\ service = {} /\ periods = {} /\ prev = NoPrev
  /\ stdin_line = <<>>
  /\ upd \in { [NoUpd EXCEPT !.csv = c, !.dry_run = d, !.table = t, !.before = t] :
                 c \in CsvFiles, d \in BOOLEAN, t \in PlayerTables }
  /\ batch = <<>> /\ accounts = <<>> /\ total_accounts = 0
  /\ statement_period = NoneStr
  /\ existing_pdfs_set = {} /\ index = 0
  /\ inflight = NoCall
  /\ calls = <<>> /\ log = <<>>
  /\ success_count = 0 /\ skipped_count = 0 /\ error_count = 0 /\ errors = <<>>
  /\ exit_code = "running" /\ exit_reason = "" /\ connection = "none"

\* accounts_to_update = read_csv_accounts(csv_path); if not accounts_to_update: return
UpdReadCsv ==
  /\ variant = "update" /\ pc = "u_start"
  /\ \E r \in {read_csv_accounts(upd.csv)} :
       IF r.exit THEN Leave("exit1", "csv_error") /\ UNCHANGED upd
       ELSE IF r.accounts = {} THEN Leave("return", "no_csv_accounts") /\ UNCHANGED upd
       ELSE /\ pc' = "u_connect"
            /\ upd' = [upd EXCEPT !.accounts_to_update = r.accounts]
            /\ UNCHANGED <<exit_code, exit_reason, connection>>
  /\ UNCHANGED updFrame

\* connection = get_db_connection(): a connection, sys.exit(1) on Error, or None
\* (then connection.cursor raises AttributeError inside the try)
UpdConnect ==
  /\ variant = "update" /\ pc = "u_connect"
  /\ \E got \in {"connected", "error", "none"} :
       IF got = "connected"
       THEN /\ connection' = "open"
            /\ pc' = "u_fetch"
            /\ UNCHANGED <<exit_code, exit_reason>>
       ELSE IF got = "error" THEN Leave("exit1", "connect_error")
       ELSE Leave("raised", "exception")
  /\ UNCHANGED <<updFrame, upd>>

\* Mutant of Rollback: the rollback undoes every update of the run
Rollback_whole_run(u) == [u EXCEPT !.table = u.before]

\* except Error: connection.rollback(). Every earlier update was committed, so
\* only the statement that failed is undone
Rollback(u) == u

\* Mutant of Changes: a matched record is updated whatever its flag is
Changes_any_flag(should_update, current_is_email) == should_update

\* if should_update: ... if current_is_email != 1:
Changes(should_update, current_is_email) == should_update /\ current_is_email # 1

\* Mutant of Writes: the dry run writes as well
Writes_in_dry_run(changes, dry_run) == changes

\* if not dry_run: cursor.execute(UPDATE ...); connection.commit()
Writes(changes, dry_run) == changes /\ ~dry_run

\* cursor.execute(SELECT ...); all_players = cursor.fetchall()
UpdFetch ==
  /\ variant = "update" /\ pc = "u_fetch"
  /\ \E fault \in BOOLEAN :
       IF fault THEN Leave("exit1", "db_error") /\ upd' = Rollback(upd)
       ELSE /\ pc' = "u_loop"
            /\ upd' = [upd EXCEPT !.all_players = upd.table,
                                  !.not_found_accounts = upd.accounts_to_update]
            /\ UNCHANGED <<exit_code, exit_reason, connection>>
  /\ UNCHANGED updFrame

\* One pass of `for player in all_players`
UpdPlayer ==
  /\ variant = "update" /\ pc = "u_loop" /\ upd.index < Len(upd.all_players)
  /\ \E player \in {upd.all_players[upd.index + 1]} :
     \E decrypted_account \in {decrypt_account(player.account_number, envKey)} :
       IF decrypted_account.raised THEN Leave("raised", "exception") /\ UNCHANGED upd
       ELSE
         LET normalized_db_account == update_normalize_account(decrypted_account.str)
             normalized_encrypted_account == update_normalize_account(player.account_number)
             should_update == \/ normalized_db_account \in upd.accounts_to_update
                              \/ normalized_encrypted_account \in upd.accounts_to_update
             matched_account == IF normalized_db_account \in upd.accounts_to_update
                                THEN normalized_db_account
                                ELSE normalized_encrypted_account
             changes == Changes(should_update, player.is_email)
             writes == Writes(changes, upd.dry_run)
         IN \E fault \in (IF writes THEN BOOLEAN ELSE {FALSE}) :
              IF fault THEN Leave("exit1", "db_error") /\ upd' = Rollback(upd)
              ELSE /\ upd' = [upd EXCEPT
                        !.index = @ + 1,
                        !.not_found_accounts =
                            IF should_update THEN @ \ {matched_account} ELSE @,
                        !.matched_count = IF should_update THEN @ + 1 ELSE @,
                        !.updated_count = IF changes THEN @ + 1 ELSE @,
                        !.updates = IF writes THEN Append(@, player.id) ELSE @,
                        !.table = IF writes
                                  THEN [k \in DOMAIN @ |->
                                          IF @[k].id = player.id
                                          THEN [@[k] EXCEPT !.is_email = 1]
                                          ELSE @[k]]
                                  ELSE @]
                   /\ UNCHANGED <<pc, exit_code, exit_reason, connection>>
  /\ UNCHANGED updFrame

\* The summary, cursor.close() and the return
UpdFinish ==
  /\ variant = "update" /\ pc = "u_loop" /\ upd.index = Len(upd.all_players)
  /\ Leave("return", "completed")
  /\ UNCHANGED <<updFrame, upd>>

UpdateNext == UpdReadCsv \/ UpdConnect \/ UpdFetch \/ UpdPlayer \/ UpdFinish

\* The script is run once more with the same CSV, without --dry-run, against the
\* table the first run left
UpdAgain ==
  /\ variant = "update" /\ pc = "finished" /\ ~upd.first.some
  /\ upd' = [NoUpd EXCEPT !.csv = upd.csv, !.table = upd.table, !.before = upd.table,
                          !.first = [some |-> TRUE, dry_run |-> upd.dry_run,
                                     matched_count |-> upd.matched_count,
                                     updated_count |-> upd.updated_count]]
  /\ pc' = "u_start"
  /\ exit_code' = "running" /\ exit_reason' = "" /\ connection' = "none"
  /\ UNCHANGED updFrame

SpecUpdate == UpdateInit /\ [][UpdateNext \/ UpdAgain]_vars

\* The three runs that hold a database connection
SpecRelease == (Init \/ UpdateInit) /\ [][Next \/ UpdateNext]_vars

----------------------------------------------------------------------------
(* The loop against every kind of answer of the API: SpecDispatch *)

\* Rows whose records are dispatched or skipped without a call
DispatchRows(v) ==
  IF v = "export"
  THEN { Rec(SomeStr(S_001), 0, NoneStr, ""), Rec(SomeStr(<<>>), 0, NoneStr, "") }
  ELSE { Rec(SomeStr(S_003), 1, SomeStr(J_EMAIL), "Play"),
         Rec(SomeStr(S_003), 0, SomeStr(J_EMAIL), "No Play") }

DispatchInit ==
  /\ envKey = KeyHex(K1)
  /\ CodecIdle
  /\ LocIdle /\ FnIdle
  /\ variant \in {"export", "email"}
  /\ pc = "start"
  /\ token = "tok"
  /\ start_from_index = [some |-> FALSE, v |-> 0]
  /\ skip_existing = FALSE
  /\ filter_no_play_status = NoneStr
  /\ folder = NoFolder
  /\ store = DispatchRows(variant)
  /\ service = AllResponses
  /\ periods = RunPeriods /\ prev = NoPrev /\ upd = NoUpd
  /\ stdin_line \in {<<"Y">>, <<"N">>}
  /\ batch = <<>> /\ accounts = <<>> /\ total_accounts = 0
  /\ statement_period = NoneStr
  /\ existing_pdfs_set = {} /\ index = 0
  /\ inflight = NoCall
  /\ calls = <<>> /\ log = <<>>
  /\ success_count = 0 /\ skipped_count = 0 /\ error_count = 0 /\ errors = <<>>
  /\ exit_code = "running" /\ exit_reason = "" /\ connection = "none"

\* The loop is sequential code and requests.post has a timeout: an iteration that
\* can be taken is taken, a call that was issued ends
SpecDispatch ==
  /\ DispatchInit /\ [][Next]_vars
  /\ WF_vars(ProcessRecord) /\ WF_vars(Respond) /\ WF_vars(Finish)

----------------------------------------------------------------------------
(* Batches that hold records with bad data: SpecBadData *)

\* Good rows next to rows with an account envelope that cannot be decrypted, a
\* payload that cannot be decrypted, a payload that is no JSON, a playerInfo that
\* is no object, an email that is a number, a blank email, a blank account and an
\* opted-out row
BadDataRows(v) ==
  IF v = "export"
  THEN { Rec(SomeStr(S_001), 0, NoneStr, ""),
         Rec(SomeStr(S_NONHEX), 0, NoneStr, ""),
         Rec(SomeStr(S_SHORTIV), 0, NoneStr, "") }
  ELSE { Rec(SomeStr(S_003), 1, SomeStr(J_EMAIL), "Play"),
         Rec(SomeStr(S_NONHEX), 1, SomeStr(J_EMAIL), "Play"),
         Rec(SomeStr(S_003), 1, SomeStr(S_NONHEX), "Play"),
         Rec(SomeStr(S_003), 1, SomeStr(S_001), "Play"),
         Rec(SomeStr(S_003), 1, SomeStr(J_PINFO_STR), "Play"),
         Rec(SomeStr(S_003), 1, SomeStr(J_EMAIL_NUM), "Play"),
         Rec(SomeStr(S_001), 1, SomeStr(J_EMAIL_B), "Play"),
         Rec(SomeStr(S_001), 0, SomeStr(J_EMAIL_B), "Play"),
         Rec(SomeStr(S_001), 1, SomeStr(J_EMAIL_BLANK), "Play"),
         Rec(SomeStr(<<" ">>), 1, SomeStr(J_EMAIL_B), "Play") }

BadDataInit ==
  /\ envKey = KeyHex(K1)
  /\ CodecIdle
  /\ LocIdle /\ FnIdle
  /\ variant \in {"export", "email"}
  /\ pc = "start"
  /\ token = "tok"
  /\ start_from_index = [some |-> FALSE, v |-> 0]
  /\ skip_existing = FALSE
  /\ filter_no_play_status = NoneStr
  /\ folder = NoFolder
  /\ store = BadDataRows(variant)
  /\ service = Responses
  /\ periods = RunPeriods /\ prev = NoPrev /\ upd = NoUpd
  /\ stdin_line \in {<<"Y">>, <<"N">>}
  /\ batch = <<>> /\ accounts = <<>> /\ total_accounts = 0
  /\ statement_period = NoneStr
  /\ existing_pdfs_set = {} /\ index = 0
  /\ inflight = NoCall
  /\ calls = <<>> /\ log = <<>>
  /\ success_count = 0 /\ skipped_count = 0 /\ error_count = 0 /\ errors = <<>>
  /\ exit_code = "running" /\ exit_reason = "" /\ connection = "none"

SpecBadData == BadDataInit /\ [][Next]_vars

----------------------------------------------------------------------------
(* The email run over batches with every kind of period text: SpecPeriod *)

\* Sides of the form "D Month YYYY" that are dates
DateSides ==
  { <<"1"," ","O","c","t","o","b","e","r"," ","2","0","2","5">>,
    <<"3","1"," ","D","e","c","e","m","b","e","r"," ","2","0","2","5">>,
    <<"2","9"," ","F","e","b","r","u","a","r","y"," ","2","0","2","4">>,
    <<"1"," ","o","c","t","o","b","e","r"," ","2","0","2","5">>,
    <<"0","1"," ","M","a","y"," ","2","0","2","5">> }

\* Sides of the form "D Month YYYY" that are no dates of the calendar
NoDateSides ==
  { <<"2","9"," ","F","e","b","r","u","a","r","y"," ","2","0","2","5">>,
    <<"3","1"," ","A","p","r","i","l"," ","2","0","2","5">> }

\* Sides that are not of the form "D Month YYYY"
OtherSides ==
  { <<"1"," ","O","c","t"," ","2","0","2","5">>,
    <<"1"," ","O","c","t","o","b","e","r"," ","2","5">>,
    <<"O","c","t","o","b","e","r"," ","2","0","2","5">>,
    <<"1"," ","O","c","t","o","b","e","r">>,
    <<"0"," ","M","a","y"," ","2","0","2","5">>,
    <<"3","2"," ","M","a","y"," ","2","0","2","5">>,
    <<"1","M","a","y","2","0","2","5">>,
    <<"2","0","2","5","-","1","0","-","0","1">>,
    <<>>,
    <<"1"," ","M","a","y"," ","2","0","2","5","x">>,
    <<"0","0","1"," ","M","a","y"," ","2","0","2","5">>,
    <<"1"," ","M","a","y"," ","2","0","2","5"," ","-"," ","2"," ","M","a","y"," ","2","0","2","5">> }

\* What stands between the two sides
Separators == { <<" ", "-", " ">>, <<"-">>, <<" ", "-">>, <<" ", "t", "o", " ">> }

\* The statement_period column of the batch row: NULL or a text
PeriodValues ==
  {NoneStr} \cup
  { SomeStr(l \o sep \o r) : l \in DateSides \cup NoDateSides \cup OtherSides,
                              r \in DateSides \cup NoDateSides \cup OtherSides,
                              sep \in Separators }

PeriodInit ==
  /\ envKey = KeyHex(K1)
  /\ CodecIdle
  /\ LocIdle /\ FnIdle
  /\ variant = "email"
  /\ pc = "start"
  /\ token = "tok"
  /\ start_from_index = [some |-> FALSE, v |-> 0]
  /\ skip_existing = FALSE
  /\ filter_no_play_status = NoneStr
  /\ folder = NoFolder
  /\ store = { Rec(SomeStr(S_003), 1, SomeStr(J_EMAIL), "Play") }
  /\ service = {RespSuccess}
  /\ periods = PeriodValues /\ prev = NoPrev /\ upd = NoUpd
  /\ stdin_line \in {<<"Y">>, <<"N">>}
  /\ batch = <<>> /\ accounts = <<>> /\ total_accounts = 0
  /\ statement_period = NoneStr
  /\ existing_pdfs_set = {} /\ index = 0
  /\ inflight = NoCall
  /\ calls = <<>> /\ log = <<>>
  /\ success_count = 0 /\ skipped_count = 0 /\ error_count = 0 /\ errors = <<>>
  /\ exit_code = "running" /\ exit_reason = "" /\ connection = "none"

SpecPeriod == PeriodInit /\ [][Next]_vars

----------------------------------------------------------------------------
(* A run followed by a second run over the same batch: SpecRerun *)

\* Mutant of DisplayRow: the row number ignores the resume index
DisplayRow_from_one(sfi, i) == i

\* actual_row = display_start_index + index - 1, with
\* display_start_index = start_from_index if start_from_index else 1
DisplayRow(sfi, i) == (IF sfi.some /\ sfi.v # 0 THEN sfi.v ELSE 1) + i - 1

\* The API has written the statement of a record whose call succeeded
ArtifactProduced ==
  /\ variant = "export" /\ pc \in {"loop", "finished"}
  /\ \E i \in 1..Len(log), j \in 1..Len(calls) :
       /\ log[i].outcome = "success" /\ calls[j].id = log[i].id
       /\ ArtifactFile(calls[j].account) \notin folder.files
       /\ folder' = [folder EXCEPT !.exists = TRUE,
                                   !.files = @ \cup {ArtifactFile(calls[j].account)}]
  /\ UNCHANGED <<codecVars, locVars, fnVars, upd, variant, pc, token, start_from_index,
                 skip_existing, filter_no_play_status, store, service, stdin_line, periods,
                 prev,
                 fetchVars, loopVars, exit_code, exit_reason, connection>>

\* What a run leaves behind for the next one
Left(mode) ==
  [some |-> TRUE, mode |-> mode, batch |-> batch, accounts |-> accounts, index |-> index,
   calls |-> calls, log |-> log, files |-> folder.files]

\* A new process starts the function from its first line
Restart ==
  /\ pc' = "start"
  /\ batch' = <<>> /\ accounts' = <<>> /\ total_accounts' = 0
  /\ statement_period' = NoneStr
  /\ existing_pdfs_set' = {} /\ index' = 0
  /\ inflight' = NoCall
  /\ calls' = <<>> /\ log' = <<>>
  /\ success_count' = 0 /\ skipped_count' = 0 /\ error_count' = 0 /\ errors' = <<>>
  /\ exit_code' = "running" /\ exit_reason' = "" /\ connection' = "none"
  /\ UNCHANGED <<codecVars, locVars, fnVars, upd, variant, token, filter_no_play_status,
                 folder, store, service, stdin_line, periods>>

\* The export has completed and is run again for the same batch with --skip-existing
Rerun ==
  /\ variant = "export" /\ pc = "finished" /\ ~prev.some
  /\ prev' = Left("rerun")
  /\ skip_existing' = TRUE
  /\ Restart
  /\ UNCHANGED start_from_index

\* The run is terminated between two records and started again with
\* --start-from-index set to the row number of the next record
Resume ==
  /\ pc = "loop" /\ ~inflight.some /\ ~prev.some
  /\ prev' = Left("resume")
  /\ start_from_index' = [some |-> TRUE, v |-> DisplayRow(start_from_index, index + 1)]
  /\ Restart
  /\ UNCHANGED skip_existing

RerunRows(v) ==
  IF v = "export"
  THEN { Rec(SomeStr(S_001), 0, NoneStr, ""), Rec(SomeStr(S_A_001), 0, NoneStr, "") }
  ELSE { Rec(SomeStr(S_003), 1, SomeStr(J_EMAIL), "Play"),
         Rec(SomeStr(S_001), 1, SomeStr(J_EMAIL_B), "No Play") }

RerunInit ==
  /\ envKey = KeyHex(K1)
  /\ CodecIdle
  /\ LocIdle /\ FnIdle
  /\ variant \in {"export", "email"}
  /\ pc = "start"
  /\ token = "tok"
  /\ start_from_index \in {[some |-> FALSE, v |-> 0], [some |-> TRUE, v |-> 2]}
  /\ skip_existing \in (IF variant = "export" THEN BOOLEAN ELSE {FALSE})
  /\ filter_no_play_status \in
       (IF variant = "email" THEN {NoneStr, [some |-> TRUE, v |-> "No Play"]} ELSE {NoneStr})
  /\ folder \in (IF variant = "export"
                 THEN {NoFolder, [NoFolder EXCEPT !.exists = TRUE, !.files = {ArtifactFile(S_001)}]}
                 ELSE {NoFolder})
  /\ store = RerunRows(variant)
  /\ service = {RespSuccess, RespFailure}
  /\ periods = {SomeStr(P_Q4)} /\ prev = NoPrev /\ upd = NoUpd
  /\ stdin_line \in {<<"Y">>, <<"N">>}
  /\ batch = <<>> /\ accounts = <<>> /\ total_accounts = 0
  /\ statement_period = NoneStr
  /\ existing_pdfs_set = {} /\ index = 0
  /\ inflight = NoCall
  /\ calls = <<>> /\ log = <<>>
  /\ success_count = 0 /\ skipped_count = 0 /\ error_count = 0 /\ errors = <<>>
  /\ exit_code = "running" /\ exit_reason = "" /\ connection = "none"

RerunNext == Next \/ ArtifactProduced \/ Rerun \/ Resume

SpecRerun == RerunInit /\ [][RerunNext]_vars

(***************************************************************************)
(* SpecGates: the steps before the first call, with every kind of answer   *)
(* at the confirmation prompt                                              *)
(***************************************************************************)

\* Lines the operator may type at the prompt
ConfirmAnswers ==
  { <<"Y">>, <<"y">>, <<" ","y"," ">>, <<"N">>, <<>>, <<"y","e","s">>, <<"Y","N">> }

GatesInit ==
  /\ envKey = KeyHex(K1)
  /\ CodecIdle
  /\ LocIdle /\ FnIdle
  /\ variant \in {"export", "email"}
  /\ pc = "start"
  /\ token \in {"", "tok"}
  /\ start_from_index \in StartIndexValues
  /\ skip_existing = FALSE
  /\ filter_no_play_status \in
       (IF variant = "email" THEN {NoneStr, [some |-> TRUE, v |-> "No Play"]} ELSE {NoneStr})
  /\ folder = NoFolder
  /\ store = RerunRows(variant)
  /\ service = {RespSuccess}
  /\ periods = RunPeriods /\ prev = NoPrev /\ upd = NoUpd
  /\ stdin_line \in ConfirmAnswers
  /\ batch = <<>> /\ accounts = <<>> /\ total_accounts = 0
  /\ statement_period = NoneStr
  /\ existing_pdfs_set = {} /\ index = 0
  /\ inflight = NoCall
  /\ calls = <<>> /\ log = <<>>
  /\ success_count = 0 /\ skipped_count = 0 /\ error_count = 0 /\ errors = <<>>
  /\ exit_code = "running" /\ exit_reason = "" /\ connection = "none"

SpecGates == GatesInit /\ [][Next]_vars

----------------------------------------------------------------------------
(* The dispatch functions called on their own: SpecClassify *)

\* Status codes and bodies of the responses the functions are called with
Statuses == {199, 200, 201, 204, 299, 300, 404, 500}
Bodies == {"success", "failure_msg", "failure", "error_json", "json_list", "text", "empty"}
ClassifyResponses ==
  { [kind |-> "http", status |-> st, body |-> b] : st \in Statuses, b \in Bodies }
  \cup { [kind |-> k, status |-> 0, body |-> "empty"] : k \in {"timeout", "connection", "other"} }

ClassifyInit ==
  /\ envKey = KeyUnset /\ CodecIdle /\ RunIdle /\ LocIdle
  /\ dResp \in ClassifyResponses
  /\ dRes = NoDispatchRes /\ cur = NoCursor

\* generate_pdf_for_member(account, start_date, end_date, token)
CallGeneratePdf ==
  /\ dRes.op = "none"
  /\ dRes' = [op |-> "generate_pdf_for_member", result |-> generate_pdf_for_member(dResp)]
  /\ UNCHANGED <<codecVars, runVars, locVars, dResp, cur>>

\* send_no_play_email(account, start_date, end_date, email, token)
CallSendEmail ==
  /\ dRes.op = "none"
  /\ dRes' = [op |-> "send_no_play_email", result |-> send_no_play_email(dResp)]
  /\ UNCHANGED <<codecVars, runVars, locVars, dResp, cur>>

ClassifyNext == CallGeneratePdf \/ CallSendEmail

SpecClassify == ClassifyInit /\ [][ClassifyNext]_vars

----------------------------------------------------------------------------
(* The locator called on its own: SpecLocator *)

S_DOTTED == <<"0", ".", "0", "1">>
S_A_DASH == <<"A", "-", "1">>

LocAccounts == {S_001, S_A_001, S_DOTTED, S_A_DASH, S_MEMBER, <<>>}

LocCalls ==
  { [account |-> a, quarter |-> q, year |-> y, check_all_quarters |-> c] :
      a \in LocAccounts, q \in {1, 3, 12}, y \in {5, 25, 2025}, c \in BOOLEAN }

File(name) == [name |-> name, is_file |-> TRUE]
Dir(name, files) == [name |-> name, is_dir |-> TRUE, files |-> files]

S_ARCHIVE == <<"a", "r", "c", "h", "i", "v", "e">>

\* States of the uploads directory
UploadsStates ==
  { [exists |-> FALSE, entries |-> {}],
    [exists |-> TRUE, entries |-> {}],
    [exists |-> TRUE, entries |->
       {Dir(quarter_folder_name(3, 2025), {File(get_expected_pdf_path(S_A_001, 3, 2025).name)})}],
    [exists |-> TRUE, entries |->
       {Dir(quarter_folder_name(3, 2025), {File(get_expected_pdf_path(S_001, 3, 2025).name)})}],
    [exists |-> TRUE, entries |->
       {Dir(quarter_folder_name(2, 2024), {File(get_expected_pdf_path(S_001, 2, 2024).name)}),
        Dir(quarter_folder_name(1, 2024), {File(get_expected_pdf_path(S_001, 1, 2024).name)})}],
    [exists |-> TRUE, entries |->
       {Dir(S_ARCHIVE, {File(get_expected_pdf_path(S_001, 3, 2025).name)})}],
    [exists |-> TRUE, entries |->
       {Dir(quarter_folder_name(3, 2025),
            {[name |-> get_expected_pdf_path(S_001, 3, 2025).name, is_file |-> FALSE]})}],
    [exists |-> TRUE, entries |->
       {[name |-> quarter_folder_name(2, 2024), is_dir |-> FALSE, files |-> {}]}] }

LocInit ==
  /\ envKey = KeyUnset /\ CodecIdle /\ RunIdle /\ FnIdle
  /\ lCall \in LocCalls
  /\ \/ uploads \in UploadsStates /\ lOther = lCall
     \/ uploads = [exists |-> FALSE, entries |-> {}] /\ lOther \in LocCalls
  /\ lRes = NoLocRes

\* get_expected_pdf_path for the two argument lists
CallExpectedPath ==
  /\ lRes.op = "none"
  /\ lRes' = [NoLocRes EXCEPT !.op = "expected_path",
                !.path = get_expected_pdf_path(lCall.account, lCall.quarter, lCall.year),
                !.other = get_expected_pdf_path(lOther.account, lOther.quarter, lOther.year)]
  /\ UNCHANGED <<codecVars, runVars, uploads, lCall, lOther, fnVars>>

\* pdf_exists(account, quarter, year, uploads_dir, check_all_quarters)
CallPdfExists ==
  /\ lRes.op = "none"
  /\ \E r \in pdf_exists(lCall.account, lCall.quarter, lCall.year, uploads,
                          lCall.check_all_quarters) :
       lRes' = [NoLocRes EXCEPT !.op = "pdf_exists", !.found = r.found, !.path = r.path]
  /\ UNCHANGED <<codecVars, runVars, uploads, lCall, lOther, fnVars>>

\* The membership test of the loop for this account, after the scan of the folder
\* of its quarter
CallSkipTest ==
  /\ lRes.op = "none"
  /\ lCall.account # <<>>
  /\ lRes' = [NoLocRes EXCEPT !.op = "skip_test",
                !.kind = ExportDecide(StrOk(lCall.account), TRUE,
                           ScanExisting(QuarterFolderOf(uploads, lCall.quarter, lCall.year))).kind]
  /\ UNCHANGED <<codecVars, runVars, uploads, lCall, lOther, fnVars>>

LocNext == CallExpectedPath \/ CallPdfExists \/ CallSkipTest

SpecLocator == LocInit /\ [][LocNext]_vars

----------------------------------------------------------------------------
(* The batch run: properties *)

\* The records the loop has finished with, by id, in the order it finished them
Processed == [i \in 1..Len(log) |-> log[i].id]

\* The records for which the external action was called, by id, in call order
Called == [i \in 1..Len(calls) |-> calls[i].id]

\* How many entries of the log have one of the given outcomes
CountOutcome(outcomes) == Cardinality({i \in 1..Len(log) : log[i].outcome \in outcomes})

\* The records of the batch the run selects before the resume index applies
Selected == FilterStatus(batch, filter_no_play_status)

\* The fetch of the accounts has happened and the steps before the prompt have run
PrepareDone ==
  \/ pc \in {"confirm", "loop", "finished"}
  \/ /\ pc = "aborted"
     /\ exit_reason \notin {"no_token", "connect_error", "no_batches", "quit", "batch_not_found"}

\* The artifact file of the record with the given id is in the quarter folder
ArtifactPresent(id) ==
  ArtifactFile(normalize_account(batch[id].account_number, envKey).str) \in folder.files

\* C1: in both runs a record whose normalized account is empty is counted in
\* 'skipped' and never in 'failed': when the run has finished, 'failed' counts
\* exactly the external calls that failed and 'skipped' counts every skipped
\* record, the ones with an empty account included (so ["001", "", "003"] with
\* calls that succeed ends with succeeded=2, skipped=1, failed=0).
C1_EmptyAccountCountedSkipped ==
  pc = "finished" =>
    /\ error_count = CountOutcome({"failed"})
    /\ skipped_count =
         CountOutcome({"skip_empty", "skip_exists", "skip_optout", "skip_noemail"})

\* C2: in the export run with skip_existing, no external call is issued for an
\* account whose file Statement_Q<q>_<y>_<sanitized account>.pdf is in the
\* quarter folder, and the record ends skipped.
C2_ExistingArtifactSkipped ==
  (variant = "export" /\ skip_existing) =>
    /\ \A i \in 1..Len(calls) : ~ArtifactPresent(calls[i].id)
    /\ \A i \in 1..Len(log) :
         (log[i].outcome # "skip_empty" /\ ArtifactPresent(log[i].id))
           => log[i].outcome = "skip_exists"

\* C3: in the export run with skip_existing, a record with a non-empty account
\* whose own file is not in the quarter folder is never skipped as 'artifact
\* exists', whatever files of other accounts are there.
C3_MissingArtifactDispatched ==
  (variant = "export" /\ skip_existing) =>
    \A i \in 1..Len(log) : log[i].outcome = "skip_exists" => ArtifactPresent(log[i].id)

\* The ids of records k..n of the selected records
ResumeExpected ==
  [i \in 1..(Len(Selected) - start_from_index.v + 1) |->
     Selected[start_from_index.v + i - 1].id]

IsPrefix(s, t) == Len(s) <= Len(t) /\ s = SubSeq(t, 1, Len(s))

\* C4: resume by index. With n >= 1 selected records and start_from_index = k,
\* 1 <= k <= n: the run processes records k..n in their order and no others
\* (at every moment the processed and the called records are a prefix of k..n,
\* and a run that completes has processed all of them). With k > n the run
\* stops with the range error before any record or external call.
C4_ResumeByIndex ==
  (PrepareDone /\ batch # <<>> /\ start_from_index.some /\ start_from_index.v >= 1) =>
    IF start_from_index.v <= Len(Selected)
    THEN /\ exit_reason \notin {"index_lt_1", "index_gt_total"}
         /\ IsPrefix(Processed, ResumeExpected)
         /\ \A i \in 1..Len(Called) :
              \E j \in 1..Len(ResumeExpected) : Called[i] = ResumeExpected[j]
         /\ pc = "finished" => Processed = ResumeExpected
    ELSE /\ pc = "aborted" /\ exit_code = "exit1" /\ exit_reason = "index_gt_total"
         /\ log = <<>> /\ calls = <<>>

\* C4 witness: a run over a batch of three records resumed at record 2 has
\* completed, having processed two records
C4_Witness ==
  /\ pc = "finished" /\ Len(batch) = 3 /\ Len(Selected) = 3
  /\ start_from_index.some /\ start_from_index.v = 2
  /\ Len(log) = 2 /\ Len(calls) >= 1

\* C5: every supplied start_from_index below 1, and every supplied index above
\* the number of records (an empty batch included), makes the run fail with the
\* range error without processing a record: it never processes the whole
\* batch and never returns normally.
C5_IndexOutOfRangeFails ==
  (PrepareDone /\ start_from_index.some
     /\ (start_from_index.v < 1 \/ start_from_index.v > Len(Selected))) =>
    /\ pc = "aborted" /\ exit_code = "exit1"
    /\ exit_reason \in {"index_lt_1", "index_gt_total"}
    /\ log = <<>> /\ calls = <<>>

\* The records of the cursor with a non-empty account, by id
NonEmptyIds ==
  {accounts[i].id : i \in {j \in 1..Len(accounts) :
                            normalize_account(accounts[j].account_number, envKey).str # <<>>}}

\* C15: when the folder of the current quarter does not exist, the scan yields
\* the empty set without an error, and a run with skip_existing skips no record
\* as 'artifact exists': every record with a non-empty account is dispatched.
C15_MissingFolderScansEmpty ==
  (variant = "export" /\ skip_existing /\ ~folder.exists) =>
    /\ existing_pdfs_set = {}
    /\ exit_code # "raised"
    /\ \A i \in 1..Len(log) : log[i].outcome # "skip_exists"
    /\ pc = "finished" => NonEmptyIds = {Called[i] : i \in 1..Len(Called)}

\* C15 witness: such a run, with statements in another quarter folder, has
\* completed and dispatched two records
C15_Witness ==
  /\ variant = "export" /\ skip_existing /\ ~folder.exists /\ folder.elsewhere # {}
  /\ pc = "finished" /\ Len(calls) = 2 /\ Len(batch) = 3

\* C16: without a dispatch token the run stops before any record: no external
\* call, no record outcome, and the store connection is never acquired.
C16_NoTokenAborts ==
  token = "" =>
    /\ calls = <<>> /\ log = <<>> /\ index = 0 /\ ~inflight.some
    /\ connection = "none"
    /\ pc \in {"start", "aborted"}
    /\ pc = "aborted" => (exit_code = "exit1" /\ exit_reason = "no_token")

\* C16 witness: a run without a token has stopped
C16_Witness ==
  /\ token = "" /\ pc = "aborted" /\ exit_reason = "no_token" /\ connection = "none"

\* C19: one bad record never halts the run. Whatever bad data a record of the
\* batch holds (an account envelope or a payload that cannot be decrypted, a
\* payload that is no JSON, a playerInfo that is no object, an email that is no
\* string), the run does not terminate with an unhandled error.
C19_BadRecordNeverHalts == exit_code # "raised"

\* Position of a record in the cursor
PositionOf(id) == CHOOSE k \in 1..Len(accounts) : accounts[k].id = id

\* The address a row of the store carries in its payload, <<>> when it carries none
RowEmail(rec) ==
  IF rec.player_data = SomeStr(J_EMAIL) THEN S_EMAIL
  ELSE IF rec.player_data = SomeStr(J_EMAIL_B) THEN S_EMAIL_B
  ELSE <<>>

\* The account of a row has a character that is not a space
RowHasAccount(rec) ==
  rec.account_number.some /\ \E i \in 1..Len(rec.account_number.v) : rec.account_number.v[i] # " "

CallsFor(id) == { i \in 1..Len(calls) : calls[i].id = id }

\* C23: in the email run a call is issued for a record only if its normalized
\* account is not empty, its is_email flag is 1 and a non-blank email was extracted
\* from its payload; a record that fails the flag test or has no usable email is
\* skipped without a call; every call carries the email of its own record.
C23_EmailEligibility ==
  variant = "email" =>
     /\ \A i \in 1..Len(calls) :
          LET rec == accounts[PositionOf(calls[i].id)] IN
          /\ RowHasAccount(rec) /\ rec.is_email = 1
          /\ RowEmail(rec) # <<>> /\ calls[i].email = RowEmail(rec)
     /\ \A i \in 1..Len(log) :
          (RowHasAccount(accounts[i]) /\ (accounts[i].is_email # 1 \/ RowEmail(accounts[i]) = <<>>))
            => /\ log[i].outcome \in {"skip_optout", "skip_noemail"}
               /\ CallsFor(accounts[i].id) = {}

\* C23 witness: an email run has completed in which an opted-out record and a
\* record with a blank email were skipped and a third record was called with its
\* own address
C23_Witness ==
  /\ variant = "email" /\ pc = "finished" /\ Len(log) = 3
  /\ log[1].outcome = "skip_optout" /\ RowEmail(accounts[1]) # <<>>
  /\ log[2].outcome = "skip_noemail" /\ accounts[2].player_data = SomeStr(J_EMAIL_BLANK)
  /\ Len(calls) = 1 /\ calls[1].id = accounts[3].id /\ calls[1].email = S_EMAIL_B

\* C24: every record of the cursor ends in exactly one terminal outcome, chosen by
\* the first rule that matches (empty account, then opted out, then the other
\* skips, then the call), and every outcome is counted: after each record
\* succeeded + skipped + failed is the number of records handled so far, and at
\* the end of the run it is the length of the cursor.
C24_EveryOutcomeCounted ==
  /\ success_count + skipped_count + error_count = Len(log)
  /\ Len(log) <= Len(accounts)
  /\ pc = "finished" => success_count + skipped_count + error_count = Len(accounts)
  /\ success_count = Cardinality({ i \in 1..Len(log) : log[i].outcome = "success" })
  /\ \A i \in 1..Len(log) :
       /\ log[i].id = accounts[i].id
       /\ ~RowHasAccount(accounts[i]) => log[i].outcome = "skip_empty"
       /\ (variant = "email" /\ RowHasAccount(accounts[i]) /\ accounts[i].is_email # 1)
            => log[i].outcome = "skip_optout"
       /\ log[i].outcome = "skip_exists" => variant = "export" /\ skip_existing
       /\ log[i].outcome \in {"success", "failed"} <=> CallsFor(accounts[i].id) # {}

\* C24 witness: a run has completed with a record without account, a skipped
\* record and a successful call, three outcomes for three records
C24_Witness ==
  /\ pc = "finished" /\ Len(accounts) = 3
  /\ success_count = 1 /\ skipped_count = 1 /\ error_count = 1
  /\ \E i \in 1..3 : log[i].outcome = "skip_empty"

\* C29: with a status filter set (and no resume index) the cursor holds exactly
\* the records of the batch whose status equals the filter value, in their
\* original order, and the total reported with it is the size of the whole batch.
C29_StatusFilter ==
  (PrepareDone /\ batch # <<>> /\ filter_no_play_status.some /\ ~start_from_index.some) =>
     /\ total_accounts = Len(batch)
     /\ \A i \in 1..Len(accounts) :
          /\ accounts[i].no_play_status = filter_no_play_status.v
          /\ accounts[i].id \in 1..Len(batch) /\ accounts[i] = batch[accounts[i].id]
     /\ \A i, j \in 1..Len(accounts) : i < j => accounts[i].id < accounts[j].id
     /\ \A j \in 1..Len(batch) :
          batch[j].no_play_status = filter_no_play_status.v
            => \E i \in 1..Len(accounts) : accounts[i] = batch[j]

\* C29 witness: of a batch of three records the filter kept the first and the
\* third and dropped the second
C29_Witness ==
  /\ PrepareDone /\ filter_no_play_status.some /\ ~start_from_index.some
  /\ Len(batch) = 3 /\ total_accounts = 3 /\ Len(accounts) = 2
  /\ accounts[1].id = 1 /\ accounts[2].id = 3

\* The period has been read from the batch row: the run got past the empty batch
\* and the resume index
PeriodRead ==
  /\ PrepareDone /\ batch # <<>>
  /\ exit_reason \notin {"no_accounts", "index_lt_1", "index_gt_total"}

\* Texts of the form "D Month YYYY - D Month YYYY": two sides of that form with
\* " - " between them
FormTexts ==
  { l \o <<" ", "-", " ">> \o r : l \in DateSides \cup NoDateSides,
                                  r \in DateSides \cup NoDateSides }

\* C30: a batch period that is not of the form "D Month YYYY - D Month YYYY"
\* yields no period and parsing raises nothing: the email run ends with the period
\* error before any record is processed and without a call.
C30_BadPeriodAborts ==
  (variant = "email" /\ PeriodRead) =>
     /\ exit_code # "raised"
     /\ (~statement_period.some \/ statement_period.v \notin FormTexts) =>
          /\ ~parse_statement_period(statement_period).some
          /\ pc = "aborted" /\ exit_code = "exit1" /\ exit_reason = "no_dates"
          /\ index = 0 /\ log = <<>> /\ calls = <<>>

\* C30 witness: an email run over three records has ended with the period error
\* for a period written with abbreviated month names
C30_Witness ==
  /\ variant = "email" /\ PeriodRead /\ Len(accounts) = 3
  /\ statement_period = SomeStr(<<"1"," ","O","c","t"," ","2","0","2","5"," ","-"," ","3","1"," ","D","e","c","e","m","b","e","r"," ","2","0","2","5">>)
  /\ exit_reason = "no_dates" /\ calls = <<>> /\ log = <<>>

\* The account of a row given in plain text, as the run normalizes it
PlainAccount(rec) == RemoveSpaces(Strip(rec.account_number.v))

\* C25: the database connection is acquired at most once per run and is released
\* on every exit path that follows its acquisition: a run that has ended, by a
\* return, by sys.exit(1) or by an unhandled exception, holds no open connection,
\* and a connection is opened only when none was opened before.
C25_ConnectionReleased ==
  /\ [](exit_code # "running" => connection # "open")
  /\ [][connection' = "open" /\ connection # "open" => connection = "none"]_vars

\* C25 witness: the update run was ended by a database error after it had
\* committed an update, and its connection is closed
C25_Witness ==
  /\ variant = "update" /\ exit_code = "exit1" /\ exit_reason = "db_error"
  /\ upd.updates # <<>> /\ connection = "closed"

\* The words the CSV may use for a true Is Email cell, in any letter case
IsTrueCell(cell) ==
  \E w \in {<<"t","r","u","e">>, <<"1">>, <<"y","e","s">>, <<"y">>, <<"t">>} :
    /\ Len(Strip(cell)) = Len(w)
    /\ \A i \in 1..Len(w) : LowerChar(Strip(cell)[i]) = w[i]

\* The account keys the CSV of this run lists with Is Email true
ListedTrue ==
  { RemoveSpaces(Strip(upd.csv.rows[i].account)) :
      i \in {j \in 1..Len(upd.csv.rows) : IsTrueCell(upd.csv.rows[j].is_email)} } \ {<<>>}

\* The record's account, decrypted and normalized or else in its normalized raw
\* form, is one of the listed keys
MatchesCsv(account_number) ==
  \E listed \in {ListedTrue} :
    \/ RemoveSpaces(Strip(account_number)) \in listed
    \/ RemoveSpaces(Strip(decrypt_account(account_number, envKey).str)) \in listed

\* C31: the update leaves the records of the table and their accounts as they were,
\* changes a flag only to 1 (so a flag of 1 is never lowered), changes no flag of a
\* record whose account matches no CSV account listed with Is Email true, and once
\* a real run has completed every record that matches such an account has flag 1.
C31_UpdateExactlyListed ==
  /\ Len(upd.table) = Len(upd.before)
  /\ \A k \in 1..Len(upd.table) :
       /\ upd.table[k].id = upd.before[k].id
       /\ upd.table[k].account_number = upd.before[k].account_number
       /\ upd.table[k].is_email \in {upd.before[k].is_email, 1}
       /\ upd.table[k].is_email # upd.before[k].is_email
            => MatchesCsv(upd.before[k].account_number)
       /\ (pc = "finished" /\ ~upd.dry_run /\ upd.table[k].is_email # 1)
            => ~MatchesCsv(upd.before[k].account_number)

\* C31 witness: a real run has completed in which a record matched by its decrypted
\* account and a record matched by its raw stored form were raised from 0 to 1 and a
\* record matching no listed account kept its 0
C31_Witness ==
  /\ variant = "update" /\ pc = "finished" /\ ~upd.dry_run /\ Len(upd.table) = 3
  /\ \E i, j, k \in 1..3 :
       /\ StartsWith(upd.table[i].account_number, S_ENC)
       /\ decrypt_account(upd.table[i].account_number, envKey).str \in ListedTrue
       /\ upd.before[i].is_email = 0 /\ upd.table[i].is_email = 1
       /\ StartsWith(upd.table[j].account_number, S_DENC)
       /\ decrypt_account(upd.table[j].account_number, envKey).str \notin ListedTrue
       /\ upd.before[j].is_email = 0 /\ upd.table[j].is_email = 1
       /\ ~MatchesCsv(upd.table[k].account_number) /\ upd.table[k].is_email = 0

\* C32: a dry run issues no UPDATE and no commit, so the table is at every moment
\* what it was before the run; and a real run with the same CSV on the same table
\* reports the matched and updated counts the dry run reported.
C32_DryRunWritesNothing ==
  /\ upd.dry_run => (upd.updates = <<>> /\ upd.table = upd.before)
  /\ (pc = "finished" /\ upd.first.some /\ upd.first.dry_run)
       => /\ upd.matched_count = upd.first.matched_count
          /\ upd.updated_count = upd.first.updated_count

\* C32 witness: a real run that followed a dry run has completed; both counted a
\* record to update and a matched record that was already 1
C32_Witness ==
  /\ pc = "finished" /\ upd.first.some /\ upd.first.dry_run
  /\ upd.first.updated_count > 0 /\ upd.first.matched_count > upd.first.updated_count
  /\ upd.updates # <<>>

\* C37: the update is idempotent. A second run with the same CSV, after a real run
\* that completed, issues no UPDATE, leaves the table as the first run left it and
\* counts every matched record as already set to 1.
C37_UpdateIdempotent ==
  (upd.first.some /\ ~upd.first.dry_run)
    => /\ upd.updates = <<>> /\ upd.table = upd.before
       /\ upd.updated_count = 0
       /\ pc = "finished" => upd.matched_count = upd.first.matched_count

\* C37 witness: the second run has completed after a first run that raised flags
C37_Witness ==
  /\ pc = "finished" /\ upd.first.some /\ ~upd.first.dry_run
  /\ upd.first.updated_count > 0 /\ upd.matched_count > 0

\* C38: the run is not atomic. When it ends with a database error, every record
\* updated before the error has flag 1 in the table, and every other record has
\* the flag it had before the run.
C38_CommittedUpdatesRemain ==
  (variant = "update" /\ exit_reason = "db_error")
    => \A k \in 1..Len(upd.table) :
         upd.table[k].is_email =
           (IF \E i \in 1..Len(upd.updates) : upd.updates[i] = upd.table[k].id
            THEN 1 ELSE upd.before[k].is_email)

\* C38 witness: the error came at the third update, after two updates had been
\* committed; the third record still has flag 0
C38_Witness ==
  /\ variant = "update" /\ exit_reason = "db_error" /\ Len(upd.updates) = 2
  /\ upd.index = 2 /\ Len(upd.table) = 3
  /\ upd.table[1].is_email = 1 /\ upd.table[2].is_email = 1 /\ upd.table[3].is_email = 0
  /\ upd.before[1].is_email = 0 /\ upd.before[2].is_email = 0
  /\ MatchesCsv(upd.table[3].account_number)

\* The entries of the log of the records that ended Failed, in processing order
FailedLog == SelectSeq(log, LAMBDA e : e.outcome = "failed")

\* C34: at the end of every run the 'failed' count is the length of the failure
\* list, and the failure list holds one entry per record that ended Failed, in
\* processing order, with the account the call was issued for.
C34_FailedCountIsFailureList ==
  pc = "finished" =>
    /\ error_count = Len(errors)
    /\ Len(errors) = Len(FailedLog)
    /\ \A i \in 1..Len(errors) :
         \E j \in 1..Len(calls) :
           calls[j].id = FailedLog[i].id /\ calls[j].account = errors[i].account

\* The records of the batch with the status the filter asks for, in batch order
Filtered == SelectSeq(batch, LAMBDA r : r.no_play_status = filter_no_play_status.v)

\* C35: in the email run with a status filter and a start index k, the filter is
\* applied first and k is checked against and applied to the filtered sequence: the
\* run goes on iff 1 <= k <= number of records with that status, otherwise it stops
\* with the range error before any record; and the row shown for each processed
\* record is its position in the filtered sequence, at most the unfiltered total.
C35_FilterThenIndex ==
  (variant = "email" /\ filter_no_play_status.some /\ start_from_index.some
     /\ PrepareDone /\ batch # <<>>) =>
    IF 1 <= start_from_index.v /\ start_from_index.v <= Len(Filtered)
    THEN /\ exit_reason \notin {"index_lt_1", "index_gt_total"}
         /\ \A i \in 1..Len(log) :
              /\ DisplayRow(start_from_index, i) <= total_accounts
              /\ DisplayRow(start_from_index, i) <= Len(Filtered)
              /\ Filtered[DisplayRow(start_from_index, i)].id = log[i].id
    ELSE /\ pc = "aborted" /\ exit_code = "exit1"
         /\ exit_reason \in {"index_lt_1", "index_gt_total"}
         /\ log = <<>> /\ calls = <<>>

\* a < b for two account keys, from the rule of the specification: two keys of
\* digits only compare as numbers (without their leading zeros the shorter one is
\* smaller, and of two of the same length the one with the smaller digit at the
\* first difference), any other pair compares as strings
KeyBelow(a, b) ==
  LET Digits(x) == x # <<>> /\ \A i \in 1..Len(x) : x[i] \in {"0","1","2","3","4","5","6","7","8","9"}
      Lead(x) == IF \E i \in 1..Len(x) : x[i] # "0"
                 THEN (CHOOSE i \in 1..Len(x) : x[i] # "0" /\ \A j \in 1..(i - 1) : x[j] = "0") - 1
                 ELSE Len(x)
      NoLead(x) == SubSeq(x, Lead(x) + 1, Len(x))
      StrBelow(x, y) ==
        \E i \in 1..Len(y) :
          /\ \A j \in 1..(i - 1) : j <= Len(x) /\ x[j] = y[j]
          /\ i > Len(x) \/ CharCode(x[i]) < CharCode(y[i])
  IN IF Digits(a) /\ Digits(b)
     THEN \/ Len(NoLead(a)) < Len(NoLead(b))
          \/ Len(NoLead(a)) = Len(NoLead(b)) /\ StrBelow(NoLead(a), NoLead(b))
     ELSE StrBelow(a, b)

\* C33: resume by account floor. The cursor drops the leading records whose key
\* is below the floor and keeps the first record whose key is not below it and
\* every record after it, in their order; keys of digits compare as integers
\* ("9" is below "10"), other keys as strings.
C33_ResumeByAccountFloor ==
  cur.done =>
    \E n \in 0..Len(cur.keys) :
      /\ cur.out = SubSeq(cur.keys, n + 1, Len(cur.keys))
      /\ \A i \in 1..n : KeyBelow(cur.keys[i], cur.floor)
      /\ n < Len(cur.keys) => ~KeyBelow(cur.keys[n + 1], cur.floor)

\* C33 witness: with floor "10" the leading "9" is dropped, "10" is kept and so
\* is the "9" behind it
C33_Witness ==
  /\ cur.done /\ cur.floor = <<"1","0">>
  /\ cur.keys = << <<"9">>, <<"1","0">>, <<"9">> >>
  /\ cur.out = << <<"1","0">>, <<"9">> >>

\* The operator answered Y (in either case, spaces aside)
AnsweredYes == Strip(stdin_line) \in {<<"Y">>, <<"y">>}

\* A record has been taken up or a call has been issued
Dispatching == calls # <<>> \/ log # <<>> \/ inflight.some \/ index > 0

\* C36: no record is processed and no external call is issued unless every gate
\* was passed: token present, store connected, batch found and not empty, resume
\* index (if given) in range, period bounds available, and the answer Y at the
\* prompt. The gates are taken in this order (a later gate is only reached through
\* the earlier ones), and any other answer ends the run as cancelled with no call
\* and no record.
C36_GatesBeforeDispatch ==
  /\ Dispatching =>
       /\ token # ""
       /\ connection \in {"open", "closed"}
       /\ batch # <<>>
       /\ start_from_index.some =>
            (1 <= start_from_index.v /\ start_from_index.v <= Len(Selected))
       /\ statement_period.some
       /\ AnsweredYes
  /\ connection # "none" => token # ""
  /\ batch # <<>> => connection # "none"
  /\ statement_period.some =>
       /\ batch # <<>>
       /\ exit_reason \notin {"index_lt_1", "index_gt_total"}
  /\ pc \in {"confirm", "loop", "finished"} \/ exit_reason = "cancelled"
       => statement_period.some
  /\ (PrepareDone /\ ~AnsweredYes /\ pc \notin {"prepare", "confirm"} /\ exit_reason = "cancelled")
       => (exit_code = "return" /\ ~Dispatching)
  /\ ~AnsweredYes => (~Dispatching /\ pc # "loop" /\ pc # "finished")

\* C26: the set of existing artifacts is read once, before the first call, and does
\* not change while the run goes on; whether a record is skipped as "artifact
\* exists" depends on that set only, so a statement written during the run changes
\* no later decision and two records with the same account outside the set are
\* both called.
C26_SnapshotImmutable ==
  /\ [][(pc = "loop" /\ pc' # "start") => existing_pdfs_set' = existing_pdfs_set]_vars
  /\ [](variant = "export" =>
          \A i \in 1..Len(log) :
             RowHasAccount(accounts[i]) =>
               /\ log[i].outcome = "skip_exists"
                    <=> (skip_existing /\ Sanitize(PlainAccount(accounts[i])) \in existing_pdfs_set)
               /\ log[i].outcome \in {"success", "failed"}
                    <=> ~(skip_existing /\ Sanitize(PlainAccount(accounts[i])) \in existing_pdfs_set))

\* C26 witness: with --skip-existing, the statement of account 001 is in the folder
\* but not in the set read before the loop, and two records of account 001 have
\* both been called
C26_Witness ==
  /\ variant = "export" /\ skip_existing /\ pc = "finished"
  /\ ArtifactFile(S_001) \in folder.files /\ S_001 \notin existing_pdfs_set
  /\ Len(calls) >= 2 /\ calls[1].account = S_001 /\ calls[2].account = S_001
  /\ log[1].outcome = "success"

\* The accounts whose call succeeded in the earlier run
PrevSucceeded ==
  { prev.calls[j].account :
      j \in { k \in 1..Len(prev.calls) :
                \E i \in 1..Len(prev.log) :
                   prev.log[i].id = prev.calls[k].id /\ prev.log[i].outcome = "success" } }

\* C27: idempotent re-run. When an export is run a second time for the same batch
\* with --skip-existing, and the statement of every account whose call succeeded
\* in the first run is in the quarter folder under its expected name, the second
\* run issues no call for any of those accounts.
C27_RerunIdempotent ==
  (prev.some /\ prev.mode = "rerun"
     /\ \A a \in PrevSucceeded : ArtifactFile(a) \in prev.files)
    => \A i \in 1..Len(calls) : calls[i].account \notin PrevSucceeded

\* C28: safe resumption. When a run is terminated after record k-1 and started
\* again for the same batch and filter with --start-from-index k, the new run
\* works on exactly the records the first run had not reached, in the same order,
\* and no record is called in both runs.
C28_SafeResume ==
  (prev.some /\ prev.mode = "resume") =>
     /\ PeriodRead => accounts = SubSeq(prev.accounts, prev.index + 1, Len(prev.accounts))
     /\ Len(log) <= Len(prev.accounts) - prev.index
     /\ \A i \in 1..Len(log) : log[i].id = prev.accounts[prev.index + i].id
     /\ \A i \in 1..Len(calls), j \in 1..Len(prev.calls) : calls[i].id # prev.calls[j].id
     /\ pc = "finished" => Len(log) = Len(prev.accounts) - prev.index

\* C28 witness: a run started at row 2 was terminated after one record and the run
\* started again at row 3 has completed with the one record that was left
C28_Witness ==
  /\ prev.some /\ prev.mode = "resume" /\ pc = "finished"
  /\ prev.index = 1 /\ Len(prev.accounts) = 2 /\ Len(prev.calls) = 1
  /\ start_from_index = [some |-> TRUE, v |-> 3]
  /\ Len(log) = 1 /\ log[1].id = 3 /\ Len(calls) = 1

\* Calls that have returned or failed
EndedCalls == { i \in 1..Len(log) : log[i].outcome \in {"success", "failed"} }

\* C20: processing is strictly sequential. At every moment at most one external
\* call is in flight, every record before the one being processed is in a terminal
\* state while every record after it is still pending, and calls are issued in
\* the order of the records in the cursor.
C20_StrictlySequential ==
  /\ Len(calls) - Cardinality(EndedCalls) = (IF inflight.some THEN 1 ELSE 0)
  /\ Len(log) = index - (IF inflight.some THEN 1 ELSE 0)
  /\ \A i \in 1..Len(log) : log[i].id = accounts[i].id
  /\ inflight.some => inflight.id = accounts[index].id /\ calls[Len(calls)].id = inflight.id
  /\ \A i, j \in 1..Len(calls) : i < j => PositionOf(calls[i].id) < PositionOf(calls[j].id)

\* C20 witness: the second call is in flight, the first one has ended and a third
\* record is still pending
C20_Witness ==
  /\ pc = "loop" /\ inflight.some /\ Len(calls) = 2 /\ Cardinality(EndedCalls) = 1
  /\ index < Len(accounts)

\* C17: no retries. Within a run each record of the cursor causes at most one
\* external call, however the call ends: no two calls are for the same record,
\* and a record whose call failed is not called again.
C17_NoRetries ==
  /\ \A i, j \in 1..Len(calls) : calls[i].id = calls[j].id => i = j
  /\ Len(calls) <= index
  /\ Len(calls) = success_count + Len(errors) + (IF inflight.some THEN 1 ELSE 0)

\* C17 witness: a run has completed in which a call timed out, a call was answered
\* with a non-2xx status and a third record was still called once
C17_Witness ==
  /\ pc = "finished" /\ Len(calls) = 3 /\ Len(errors) >= 2
  /\ errors[1].error.msg = "Request timeout"
  /\ errors[2].error.msg = "HTTP" /\ errors[2].error.status = 500

\* C18: once dispatching has started, a failed call never stops the run: every
\* later record of the cursor reaches a terminal state and the run ends with the
\* final report.
C18_FailureNeverStops ==
  [](pc = "loop" =>
       <>(/\ pc = "finished" /\ exit_reason = "completed"
          /\ Len(log) = Len(accounts)
          /\ Processed = [i \in 1..Len(accounts) |-> accounts[i].id]))

\* C18 witness: a run has completed in which the first call failed with a
\* connection error and a later call succeeded
C18_Witness ==
  /\ pc = "finished" /\ Len(log) = 3
  /\ log[1].outcome = "failed" /\ log[3].outcome = "success"
  /\ errors[1].error.msg = "Connection error - is the API server running?"

----------------------------------------------------------------------------
(* The locator: properties, checked under SpecLocator *)

\* The characters of [A-Za-z0-9_-]
SafeCharSet ==
  {"a", "b", "c", "d", "e", "f", "g", "h", "i", "j", "k", "l", "m",
   "n", "o", "p", "q", "r", "s", "t", "u", "v", "w", "x", "y", "z",
   "A", "B", "C", "D", "E", "F", "G", "H", "I", "J", "K", "L", "M",
   "N", "O", "P", "Q", "R", "S", "T", "U", "V", "W", "X", "Y", "Z",
   "0", "1", "2", "3", "4", "5", "6", "7", "8", "9", "_", "-"}

\* s is the account without its characters outside [A-Za-z0-9_-], or 'member'
\* when none is left
IsSanitizedOf(s, account) ==
  IF \A i \in 1..Len(account) : account[i] \notin SafeCharSet
  THEN s = <<"m", "e", "m", "b", "e", "r">>
  ELSE IsTextAt(s, account, {i \in 1..Len(account) : account[i] \in SafeCharSet})

\* The sanitized account of the call
SanitizedOfCall == Sanitize(lCall.account)

\* C12: get_expected_pdf_path is deterministic and injective on (sanitized
\* account, quarter, year): two calls return the same path exactly when the
\* quarter, the year and the sanitized account agree.
C12_ExpectedPathInjective ==
  lRes.op = "expected_path" =>
    ((lRes.path = lRes.other) <=>
       /\ lCall.quarter = lOther.quarter
       /\ lCall.year = lOther.year
       /\ \E s \in LocAccounts :
            IsSanitizedOf(s, lCall.account) /\ IsSanitizedOf(s, lOther.account))

\* C12 witness: two different accounts with the same sanitized form, same quarter
\* and year, got the same path
C12_Witness ==
  /\ lRes.op = "expected_path" /\ lCall.account = S_DOTTED /\ lOther.account = S_001
  /\ lCall.quarter = 12 /\ lOther.quarter = 12 /\ lCall.year = lOther.year
  /\ lRes.path = lRes.other

\* The decimal digits of the quarters and years of the calls
DecimalOf(n) ==
  CASE n = 1 -> <<"1">>
    [] n = 3 -> <<"3">>
    [] n = 12 -> <<"1", "2">>
    [] n = 5 -> <<"5">>
    [] n = 25 -> <<"2", "5">>
    [] n = 2025 -> <<"2", "0", "2", "5">>

\* C13: the artifact key of (account, quarter, year) is
\* q<quarter>-<year>/Statement_Q<quarter>_<year>_<s>.pdf under the root, s being
\* the account without the characters outside [A-Za-z0-9_-], or 'member' when
\* nothing is left; the all-period search and the skip-existing test use the
\* same s.
C13_ArtifactKey ==
  /\ lRes.op = "expected_path" =>
       /\ lRes.path.folder = <<"q">> \o DecimalOf(lCall.quarter) \o <<"-">> \o DecimalOf(lCall.year)
       /\ \E n \in 1..Len(lRes.path.name) :
            /\ IsSanitizedOf(SubSeq(lRes.path.name, n + 1, Len(lRes.path.name) - 4), lCall.account)
            /\ SubSeq(lRes.path.name, 1, n) =
                 <<"S","t","a","t","e","m","e","n","t","_","Q">> \o DecimalOf(lCall.quarter)
                   \o <<"_">> \o DecimalOf(lCall.year) \o <<"_">>
            /\ SubSeq(lRes.path.name, Len(lRes.path.name) - 3, Len(lRes.path.name))
                 = <<".", "p", "d", "f">>
  /\ lRes.op = "pdf_exists" =>
       \A s \in LocAccounts :
         IsSanitizedOf(s, lCall.account) =>
           [found |-> lRes.found, path |-> lRes.path]
             \in pdf_exists(s, lCall.quarter, lCall.year, uploads, lCall.check_all_quarters)
  /\ lRes.op = "skip_test" =>
       \A s \in LocAccounts :
         IsSanitizedOf(s, lCall.account) =>
           ((lRes.kind = "skip_exists") <=>
              s \in ScanExisting(QuarterFolderOf(uploads, lCall.quarter, lCall.year)))

\* C13 witness: the key of an account with a character outside the set
C13_Witness ==
  /\ lRes.op = "expected_path" /\ lCall.account = S_DOTTED
  /\ lCall.quarter = 3 /\ lCall.year = 2025
  /\ lRes.path.name = <<"S","t","a","t","e","m","e","n","t","_","Q","3","_","2","0","2","5",
                        "_","0","0","1",".","p","d","f">>

\* A statement file of the sanitized account s: Statement_Q<q>_<y>_<s>.pdf
IsStatementOf(name, s) ==
  \E q \in 1..4, y \in {2024, 2025} : name = get_expected_pdf_path(s, q, y).name

\* The files of the sanitized account s in the folders named q[1-4]-YYYY
StatementsOf(s) ==
  UNION { { [folder |-> e.name, name |-> f.name] :
              f \in {g \in e.files : g.is_file /\ IsStatementOf(g.name, s)} } :
          e \in {d \in uploads.entries : d.is_dir /\ IsQuarterFolder(d.name)} }

\* C14: pdf_exists returns (True, expected path) when the expected path is an
\* existing file; otherwise, with check_all_quarters, (True, some path) exactly
\* when a folder named q[1-4]-YYYY holds a file of that sanitized account, and
\* (False, None) when none does or the root is missing; without
\* check_all_quarters only the expected path counts.
C14_PdfExists ==
  lRes.op = "pdf_exists" =>
    IF IsFileAt(uploads, get_expected_pdf_path(lCall.account, lCall.quarter, lCall.year))
    THEN lRes.found /\ lRes.path = get_expected_pdf_path(lCall.account, lCall.quarter, lCall.year)
    ELSE IF lCall.check_all_quarters /\ uploads.exists
    THEN /\ lRes.found <=> StatementsOf(SanitizedOfCall) # {}
         /\ lRes.found => lRes.path \in StatementsOf(SanitizedOfCall)
         /\ ~lRes.found => lRes.path = NoPath
    ELSE ~lRes.found /\ lRes.path = NoPath

----------------------------------------------------------------------------
(* The dispatch functions: properties, checked under SpecClassify *)

Is2xx(resp) == resp.kind = "http" /\ resp.status >= 200 /\ resp.status <= 299
Succeeded(r) == r.success
Failed(r) == ~r.success

\* C21: a response with any status from 200 to 299 whose body carries the success
\* indicator ends Succeeded, and one whose body carries an explicit failure
\* indicator ends Failed with the message from the body.
C21_Any2xxClassifiedByBody ==
  (dRes.op # "none" /\ Is2xx(dResp)) =>
     /\ dResp.body = "success" => Succeeded(dRes.result)
     /\ dResp.body = "failure_msg" =>
          Failed(dRes.result) /\ dRes.result.error.msg = "body.error"

\* C22: the dispatch call is total. For every response and every transport fault
\* it returns exactly one of Succeeded or Failed(error) and raises nothing; a
\* timeout gives the timeout failure, a connection failure the connection-error
\* failure, any other fault a failure with the fault description, and a response
\* outside 200..299 always gives Failed.
C22_DispatchTotal ==
  dRes.op # "none" =>
     LET r == dRes.result IN
     /\ DOMAIN r = {"success", "error"}
     /\ r.success \in BOOLEAN
     /\ r.success <=> r.error = NoError
     /\ dResp.kind = "timeout" => Failed(r) /\ r.error.msg = "Request timeout"
     /\ dResp.kind = "connection" =>
          Failed(r) /\ r.error.msg = "Connection error - is the API server running?"
     /\ dResp.kind = "other" => Failed(r) /\ r.error.msg = "str(e)"
     /\ (dResp.kind = "http" /\ ~Is2xx(dResp)) => Failed(r)

\* C22 witness: a 200 response whose body is JSON but no object has been turned
\* into a failure that carries the description of the fault
C22_Witness ==
  /\ dRes.op = "send_no_play_email"
  /\ dResp.kind = "http" /\ dResp.status = 200 /\ dResp.body = "json_list"
  /\ Failed(dRes.result) /\ dRes.result.error.msg = "str(e)"
====
